---- MODULE Spec2Model ----
(***************************************************************************)
(* Content-access and caching layer of the SleekCMS client:                *)
(* fetchSiteContent (URL, env-tag memo, cache adapter, expiry, network),   *)
(* createClient (sync client over one prefetched document) and             *)
(* createAsyncClient (per-facet fetches until the one-way upgrade).        *)
(* Every await of the source is a step boundary; the code that runs        *)
(* between two awaits is one atomic step.                                  *)
(***************************************************************************)
EXTENDS Integers, Sequences, FiniteSets, TLC

VARIABLES
  now,          \* Date.now()
  serverVer,    \* the version the env alias points at on the server
  envTagCache,  \* the env-tag memo: <<siteToken, env>> -> tag
  store,        \* the cache adapter's items: URL -> text
  adapter,      \* how the cache adapter behaves
  opts,         \* the ClientOptions the caller passes
  calls,        \* the calls that are awaiting
  last,         \* the call that returned in the step just taken
  started,      \* number of calls made so far
  syncClient,   \* createAsyncClient's internal sync client
  client,       \* the client createClient returned
  served,       \* URL -> body of the latest successful GET of it
  overlapped,   \* a call has been made while another was awaiting
  fetcher,      \* the closure of the fetcher createFetchSiteContent made
  writer        \* URL -> the request of the fetch that last wrote its entry

vars == <<now, serverVer, envTagCache, store, adapter, opts, calls, last,
          started, syncClient, client, served, overlapped, fetcher,
          writer>>

(***************************************************************************)
(* Bounds of the model.                                                    *)
(***************************************************************************)
MaxCalls == 2       \* calls made in one behaviour
MaxPending == 1     \* calls awaiting at the same time
MaxTicks == 3       \* half minutes that pass in one behaviour
MaxVer == 2         \* versions the site is published in
MaxOverlap == 2     \* calls awaiting at the same time where calls overlap

(***************************************************************************)
(* Time: Date.now() is in milliseconds, cacheMinutes in minutes.  The      *)
(* clock of the model advances in half minutes.                            *)
(***************************************************************************)
MsPerMinute == 60 * 1000
TickMs == MsPerMinute \div 2

(***************************************************************************)
(* JSON / JavaScript values.  A value carries its JavaScript type in j.    *)
(***************************************************************************)
JNull == [j |-> "null"]
Undefined == [j |-> "undefined"]
Obj(o) == [j |-> "obj", o |-> o]
Arr(a) == [j |-> "arr", a |-> a]
Num(n) == [j |-> "num", n |-> n]
Str(s) == [j |-> "str", s |-> s]

\* v.name of JavaScript for a value that is neither null nor undefined
Member(v, name) ==
  IF v.j = "obj" /\ name \in DOMAIN v.o THEN v.o[name] ELSE Undefined

\* JavaScript truthiness of a value
Truthy(v) ==
  CASE v.j = "null" -> FALSE
    [] v.j = "undefined" -> FALSE
    [] v.j = "str" -> v.s # ""
    [] v.j = "num" -> v.n # 0
    [] OTHER -> TRUE

(***************************************************************************)
(* Strings held by the cache adapter.  JSONstringify builds the text of a  *)
(* value, JSONparse reads it back and fails on text that is not JSON.      *)
(***************************************************************************)
NoItem == [s |-> "null"]                 \* getItem's null
EmptyText == [s |-> "empty"]             \* the empty string
GarbageText == [s |-> "garbage"]         \* text that is not JSON
JSONstringify(v) == [s |-> "json", v |-> v]
IsJSONText(t) == t.s = "json"
JSONparse(t) == t.v

(***************************************************************************)
(* The content document served by the server in version v.                 *)
(* Paths are sequences of characters so that startsWith is a real prefix   *)
(* test.                                                                   *)
(***************************************************************************)
PathRoot == <<"/">>
PathB == <<"/", "b">>
PathBx == <<"/", "b", "x">>
PathA == <<"/", "a">>

PathBy == <<"/", "b", "y">>
PathZ == <<"/", "z">>                    \* the path of no page

\* a page may lack a _path, and may declare a _slug that is no string
Pages(v) ==
  << [_path |-> PathRoot, title |-> v],
     [_path |-> PathB, _slug |-> Str("b"), title |-> v],
     [_path |-> PathBx, title |-> v],
     [_path |-> PathA, _slug |-> Str("a"), title |-> v],
     [_path |-> PathBy, _slug |-> Num(7), title |-> v],
     [_slug |-> Str("n"), title |-> v] >>

Doc(v) ==
  Obj([ pages |-> Arr(Pages(v)),
        images |-> Obj([logo |-> Obj([url |-> v])]),
        options |-> Obj([cats |-> Arr(<<[label |-> "A", value |-> v]>>)]),
        entries |-> Obj([foo |-> Obj([title |-> v])]) ])

(***************************************************************************)
(* Queries.  A query is a sequence of identifiers (a JMESPath              *)
(* sub-expression chain a.b.c); the empty sequence is the absent query.    *)
(***************************************************************************)
NoSearch == <<>>

RECURSIVE jmesSearch(_, _)
jmesSearch(data, query) ==
  IF query = <<>> THEN data
  ELSE IF data.j = "obj" /\ Head(query) \in DOMAIN data.o
       THEN jmesSearch(data.o[Head(query)], Tail(query))
       ELSE JNull

applyJmes(data, query) ==
  IF query = NoSearch THEN data ELSE jmesSearch(data, query)

(***************************************************************************)
(* URLs.  The credential is split on '-'; the second part is the site id.  *)
(***************************************************************************)
SiteToken == <<"pub", "site1", "key1">>

Alias == [kind |-> "alias", id |-> 0]    \* the env alias 'latest'
TagOf(v) == [kind |-> "tag", id |-> v]   \* the immutable tag of version v

\* the n-th part of token.split("-"), undefined when there is none
Part(token, n) == IF n <= Len(token) THEN token[n] ELSE "undefined"

\* getBaseUrl for devEnv 'production': the first part of the credential is
\* read and left unused, the routing prefix is always 'pub'
getBaseUrl(token) ==
  [host |-> "sleekcms.com", prefix |-> "pub", site |-> Part(token, 2)]

getUrl(token, env, search, lang) ==
  [base |-> getBaseUrl(token), env |-> env, search |-> search, lang |-> lang]

NoLang == ""

NoTag == [kind |-> "none", id |-> 0]     \* envTagCache.get(key) is undefined

\* the routing modes a caller may pass as devEnv, one of them unknown
DevEnvs == {"production", "development", "localhost", "invalid"}

UnknownDevEnv(devEnv) ==
  [j |-> "error", name |-> "UnknownDevEnv", status |-> 0, message |-> devEnv]

\* getBaseUrl(token, devEnv): the base of the mode, or the error it throws
getBaseUrlIn(token, devEnv) ==
  IF devEnv = "production"
  THEN [ok |-> TRUE, value |-> getBaseUrl(token)]
  ELSE IF devEnv = "development"
  THEN [ok |-> TRUE,
        value |-> [host |-> "sleekcms.net", prefix |-> "pub",
                   site |-> Part(token, 2)]]
  ELSE IF devEnv = "localhost"
  THEN [ok |-> TRUE,
        value |-> [host |-> "localhost:9001", prefix |-> "localhost",
                   site |-> Part(token, 2)]]
  ELSE [ok |-> FALSE, value |-> UnknownDevEnv(devEnv)]

\* getUrl({siteToken, env, search, lang, devEnv}): env ?? 'latest'; search
\* and lang are appended when they are truthy
getUrlIn(token, env, search, lang, devEnv) ==
  LET base == getBaseUrlIn(token, devEnv)
  IN IF ~base.ok THEN base
     ELSE [ok |-> TRUE,
           value |-> [base |-> base.value,
                      env |-> IF env = Undefined THEN Alias ELSE env,
                      search |-> IF search # NoSearch THEN search
                                 ELSE NoSearch,
                      lang |-> IF lang # NoLang THEN lang ELSE NoLang]]


(***************************************************************************)
(* Transport.  A response is ok (2xx, with a JSON body), an HTTP error     *)
(* with a status text and a body, or no response at all (fetch throws).    *)
(***************************************************************************)
NotJson == [j |-> "notjson"]             \* a body on which res.json() rejects

ErrBodies ==
  { Obj([message |-> Str("boom")]), Obj([error |-> Str("x")]), NotJson }

OkResponse(body) ==
  [kind |-> "ok", status |-> 200, statusText |-> "OK", body |-> body]
HttpError(body) ==
  [kind |-> "http", status |-> 500, statusText |-> "Internal Server Error",
   body |-> body]
Threw == [kind |-> "throw", status |-> 0, statusText |-> "", body |-> NotJson]
NoResp == [kind |-> "none", status |-> 0, statusText |-> "", body |-> NotJson]

\* the document the server serves under an environment: a tag is immutable,
\* the alias points at the current version
ServerDoc(env, ver) == IF env.kind = "tag" THEN Doc(env.id) ELSE Doc(ver)

\* responses the transport may give to the content GET of url
GetResponses(url, ver) ==
  { OkResponse(applyJmes(ServerDoc(url.env, ver), url.search)) }
    \cup { HttpError(b) : b \in ErrBodies } \cup { Threw }

\* responses the transport may give to the resolve POST
PostResponses(ver) ==
  { OkResponse(Obj([tag |-> TagOf(ver)])), OkResponse(Obj([error |-> Str("x")])),
    OkResponse(NotJson), HttpError(NotJson), Threw }

(***************************************************************************)
(* Errors raised to the caller.                                            *)
(***************************************************************************)
RequestFailed(status, message) ==
  [j |-> "error", name |-> "RequestFailed", status |-> status,
   message |-> message]
NetworkError ==
  [j |-> "error", name |-> "NetworkError", status |-> 0, message |-> ""]
TypeError ==
  [j |-> "error", name |-> "TypeError", status |-> 0, message |-> ""]
Required(what) ==
  [j |-> "error", name |-> "Required", status |-> 0, message |-> what]

CacheError ==
  [j |-> "error", name |-> "CacheError", status |-> 0, message |-> ""]

\* ErrorOf that never reads the server's message
ErrorOfStatusText(resp) ==
  IF resp.kind = "throw" THEN NetworkError
  ELSE RequestFailed(resp.status, resp.statusText)

\* the error fetchAndCache throws for a response that is not ok
ErrorOf(resp) ==
  IF resp.kind = "throw" THEN NetworkError
  ELSE LET m == Member(resp.body, "message")
       IN RequestFailed(resp.status,
                        IF Truthy(resp.body) /\ Truthy(m) THEN m.s
                        ELSE resp.statusText)

(***************************************************************************)
(* The cache adapter: a key/value store of strings whose getItem and       *)
(* setItem may fail, by throwing (sync adapter) or rejecting (async).      *)
(***************************************************************************)
getItem(st, key) == IF key \in DOMAIN st THEN st[key] ELSE NoItem
setItem(st, key, text) == (key :> text) @@ st
Rejected == [s |-> "rejected"]           \* getItem's promise rejected

\* the default adapter, new MemoryCache(): it never fails
MemoryCache == [async |-> FALSE, getFails |-> FALSE, setFails |-> FALSE,
                fresh |-> TRUE]

(***************************************************************************)
(* One call of fetchSiteContent and of the accessor that awaits it.        *)
(***************************************************************************)
Idle == [pc |-> "idle"]

NewCall(kind, arg, search, resolveEnv, cacheMinutes, useCache) ==
  [pc |-> "start", kind |-> kind, arg |-> arg,
   siteToken |-> SiteToken, env |-> Alias, search |-> search, lang |-> NoLang,
   resolveEnv |-> resolveEnv, cacheMinutes |-> cacheMinutes,
   cache |-> useCache,
   url |-> getUrl(SiteToken, Alias, search, NoLang),
   cached |-> NoItem, expired |-> FALSE, stale |-> Undefined,
   gets |-> 0, posts |-> 0, reads |-> 0, writes |-> 0,
   ok |-> TRUE, value |-> Undefined, local |-> FALSE,
   \* history of the call, for the properties
   memoHit |-> FALSE, checkedAt |-> 0 - 1, resp |-> NoResp,
   upgraded |-> FALSE, seen |-> FALSE, fromEmpty |-> FALSE,
   post |-> NoResp, tagAt |-> NoTag,
   \* own: the cache is the MemoryCache the client made for itself
   own |-> FALSE]

\* fetchAndCache, up to its await of fetch
IssueGet(c) == [c EXCEPT !.pc = "getting", !.gets = @ + 1]

\* the call returns v / throws e
Return(c, v) == [c EXCEPT !.pc = "done", !.ok = TRUE, !.value = v]
Throw(c, e) == [c EXCEPT !.pc = "done", !.ok = FALSE, !.value = e]

\* CacheLookup without the try around getItem
CacheLookupUncaught(c, st, ad) ==
  IF ~c.cache THEN IssueGet(c)
  ELSE IF ad.getFails /\ ~ad.async
       THEN Throw([c EXCEPT !.reads = @ + 1], CacheError)
       ELSE [c EXCEPT !.pc = "reading", !.reads = @ + 1,
                      !.cached = IF ad.getFails THEN Rejected
                                 ELSE getItem(st, c.url)]

\* 'Check cache first', up to the await of getItem
CacheLookup(c, st, ad) ==
  IF ~c.cache THEN IssueGet(c)
  ELSE IF ad.getFails /\ ~ad.async
       THEN IssueGet([c EXCEPT !.reads = @ + 1])
       ELSE [c EXCEPT !.pc = "reading", !.reads = @ + 1,
                      !.cached = IF ad.getFails THEN Rejected
                                 ELSE getItem(st, c.url)]

\* Begin that resolves the alias on every fetch
BeginAlwaysResolves(c, memo, st, ad) ==
  IF c.resolveEnv THEN [c EXCEPT !.pc = "resolving", !.posts = @ + 1]
  ELSE CacheLookup(c, st, ad)

\* fetchSiteContent from its entry to its first await
Begin(c, memo, st, ad) ==
  LET key == <<c.siteToken, c.env>>
  IN IF c.resolveEnv
     THEN IF key \in DOMAIN memo
          THEN CacheLookup([c EXCEPT !.memoHit = TRUE,
                              !.url = getUrl(c.siteToken, memo[key], c.search, c.lang)],
                           st, ad)
          ELSE [c EXCEPT !.pc = "resolving", !.posts = @ + 1]
     ELSE CacheLookup(c, st, ad)

\* fetchEnvTag that returns undefined when it gets no tag
fetchEnvTagOrUndefined(resp, env) ==
  IF resp.kind = "ok" /\ resp.body.j = "obj" /\ "tag" \in DOMAIN resp.body.o
  THEN resp.body.o.tag
  ELSE NoTag

\* fetchEnvTag: the tag of the response, the alias on any failure
fetchEnvTag(resp, env) ==
  IF resp.kind = "ok" /\ resp.body.j = "obj" /\ "tag" \in DOMAIN resp.body.o
  THEN resp.body.o.tag
  ELSE env

\* fetchSiteContent after fetchEnvTag has returned tag
AfterResolve(c, tag, st, ad) ==
  CacheLookup([c EXCEPT !.url = getUrl(c.siteToken, tag, c.search, c.lang)],
              st, ad)

\* AfterRead that never takes an entry for expired
AfterReadNeverExpires(c, t) ==
  LET cached == c.cached
      c1 == [c EXCEPT !.checkedAt = t]
  IN IF cached = Rejected THEN IssueGet(c1)
     ELSE IF cached = NoItem \/ cached = EmptyText THEN IssueGet(c1)
     ELSE IF ~IsJSONText(cached) THEN IssueGet(c1)
     ELSE LET cachedData == JSONparse(cached)
              ts == Member(cachedData, "_ts")
          IN IF cachedData.j = "null" THEN IssueGet(c1)
             ELSE IF ts # Undefined
                  THEN Return(c1, Member(cachedData, "data"))
                  ELSE Return(c1, cachedData)

\* AfterRead that takes every entry for expired when no cacheMinutes is set
AfterReadExpiresWithoutWindow(c, t) ==
  LET cached == c.cached
      c1 == [c EXCEPT !.checkedAt = t]
  IN IF cached = Rejected THEN IssueGet(c1)
     ELSE IF cached = NoItem \/ cached = EmptyText THEN IssueGet(c1)
     ELSE IF ~IsJSONText(cached) THEN IssueGet(c1)
     ELSE LET cachedData == JSONparse(cached)
              ts == Member(cachedData, "_ts")
          IN IF cachedData.j = "null" THEN IssueGet(c1)
             ELSE IF ts # Undefined
                  THEN IF t - ts.n >= c.cacheMinutes * MsPerMinute
                       THEN IssueGet([c1 EXCEPT !.expired = TRUE,
                                        !.stale = Member(cachedData, "data")])
                       ELSE Return(c1, Member(cachedData, "data"))
                  ELSE Return(c1, cachedData)

\* AfterRead that reads envelopes only: a bare value is a miss
AfterReadEnvelopeOnly(c, t) ==
  LET cached == c.cached
      c1 == [c EXCEPT !.checkedAt = t]
  IN IF cached = Rejected THEN IssueGet(c1)
     ELSE IF cached = NoItem \/ cached = EmptyText THEN IssueGet(c1)
     ELSE IF ~IsJSONText(cached) THEN IssueGet(c1)
     ELSE LET cachedData == JSONparse(cached)
              ts == Member(cachedData, "_ts")
          IN IF cachedData.j = "null" THEN IssueGet(c1)
             ELSE IF ts # Undefined
                  THEN IF c.cacheMinutes # 0
                          /\ t - ts.n >= c.cacheMinutes * MsPerMinute
                       THEN IssueGet([c1 EXCEPT !.expired = TRUE,
                                        !.stale = Member(cachedData, "data")])
                       ELSE Return(c1, Member(cachedData, "data"))
                  ELSE IssueGet(c1)

\* fetchSiteContent after the await of getItem
AfterRead(c, t) ==
  LET cached == c.cached
      c1 == [c EXCEPT !.checkedAt = t]
  IN IF cached = Rejected THEN IssueGet(c1)
     ELSE IF cached = NoItem \/ cached = EmptyText THEN IssueGet(c1)
     ELSE IF ~IsJSONText(cached) THEN IssueGet(c1)
     ELSE LET cachedData == JSONparse(cached)
              ts == Member(cachedData, "_ts")
          IN IF cachedData.j = "null" THEN IssueGet(c1)
             ELSE IF ts # Undefined
                  THEN IF c.cacheMinutes # 0
                          /\ t - ts.n >= c.cacheMinutes * MsPerMinute
                       THEN IssueGet([c1 EXCEPT !.expired = TRUE,
                                        !.stale = Member(cachedData, "data")])
                       ELSE Return(c1, Member(cachedData, "data"))
                  ELSE Return(c1, cachedData)

\* the envelope fetchAndCache writes
CacheData(data, t) == Obj([data |-> data, _ts |-> Num(t)])

\* does fetchAndCache's setItem change the store
Writes(c, resp, ad) == resp.kind = "ok" /\ c.cache /\ ~ad.setFails

\* AfterGet without the try around setItem
AfterGetWriteThrows(c, resp, ad) ==
  LET c1 == [c EXCEPT !.resp = resp]
  IN IF resp.kind = "ok"
     THEN IF c.cache /\ ad.setFails
          THEN Throw([c1 EXCEPT !.writes = @ + 1], CacheError)
          ELSE Return([c1 EXCEPT !.writes = IF c.cache THEN @ + 1 ELSE @],
                      resp.body)
     ELSE IF c.expired THEN Return(c1, c.stale)
          ELSE Throw(c1, ErrorOf(resp))

\* AfterGet whose expired branch falls through to the final fetchAndCache
AfterGetFallsThrough(c, resp, ad) ==
  LET c1 == [c EXCEPT !.resp = resp]
  IN IF resp.kind = "ok"
     THEN Return([c1 EXCEPT !.writes = IF c.cache THEN @ + 1 ELSE @],
                 resp.body)
     ELSE IF c.expired /\ c.gets < 2 THEN IssueGet(c1)
          ELSE Throw(c1, ErrorOf(resp))

\* AfterGet without the try around the expired branch's fetchAndCache
AfterGetRaisesWhenStale(c, resp, ad) ==
  LET c1 == [c EXCEPT !.resp = resp]
  IN IF resp.kind = "ok"
     THEN Return([c1 EXCEPT !.writes = IF c.cache THEN @ + 1 ELSE @],
                 resp.body)
     ELSE Throw(c1, ErrorOf(resp))

\* fetchAndCache after the await of fetch, and the code that awaits it
AfterGet(c, resp, ad) ==
  LET c1 == [c EXCEPT !.resp = resp]
  IN IF resp.kind = "ok"
     THEN Return([c1 EXCEPT !.writes = IF c.cache THEN @ + 1 ELSE @],
                 resp.body)
     ELSE IF c.expired THEN Return(c1, c.stale)
          ELSE Throw(c1, ErrorOf(resp))

\* StoreAfterGet that caches the full document only
StoreAfterGetFullOnly(c, resp, ad, st, t) ==
  IF Writes(c, resp, ad) /\ c.search = NoSearch
  THEN setItem(st, c.url, JSONstringify(CacheData(resp.body, t)))
  ELSE st

\* StoreAfterGet that writes the bare value when no cacheMinutes is set
StoreAfterGetBareWithoutWindow(c, resp, ad, st, t) ==
  IF Writes(c, resp, ad)
  THEN setItem(st, c.url,
               IF c.cacheMinutes # 0
               THEN JSONstringify(CacheData(resp.body, t))
               ELSE JSONstringify(resp.body))
  ELSE st

\* StoreAfterGet that keys the entry by the URL without its selector
StoreAfterGetUnderDocumentKey(c, resp, ad, st, t) ==
  IF Writes(c, resp, ad)
  THEN setItem(st, [c.url EXCEPT !.search = NoSearch],
               JSONstringify(CacheData(resp.body, t)))
  ELSE st

\* the store after fetchAndCache's setItem
StoreAfterGet(c, resp, ad, st, t) ==
  IF Writes(c, resp, ad)
  THEN setItem(st, c.url, JSONstringify(CacheData(resp.body, t)))
  ELSE st


\* the cache a call works on: the adapter the caller passed and its items,
\* or the client's own MemoryCache, which is empty when the client's one
\* fetch starts
AdapterOf(c, ad) == IF c.own THEN MemoryCache ELSE ad

StoreOfShared(c, st) == st

StoreOf(c, st) == IF c.own THEN <<>> ELSE st

(***************************************************************************)
(* Page helpers (lib).                                                     *)
(***************************************************************************)
startsWith(s, prefix) ==
  Len(prefix) <= Len(s) /\ SubSeq(s, 1, Len(prefix)) = prefix

\* typeof p._path === "string" ? p._path : ""
PathOf(p) == IF "_path" \in DOMAIN p THEN p._path ELSE <<>>

IsNullish(v) == v.j \in {"null", "undefined"}

Ok(v) == [ok |-> TRUE, value |-> v]
Err(e) == [ok |-> FALSE, value |-> e]

\* pages ?? [] ; a value that is no array has no filter / is not iterable
PagesList(pages) ==
  IF IsNullish(pages) THEN Ok(<<>>)
  ELSE IF pages.j = "arr" THEN Ok(pages.a)
  ELSE Err(TypeError)

\* filterPagesByPath that keeps the pages whose path is exactly path
filterPagesByEqualPath(pages, path) ==
  LET l == PagesList(pages)
      keep(p) == ~(path # <<>> /\ PathOf(p) # path)
  IN IF l.ok THEN Ok(Arr(SelectSeq(l.value, keep))) ELSE l

filterPagesByPath(pages, path) ==
  LET l == PagesList(pages)
      keep(p) == ~(path # <<>> /\ ~startsWith(PathOf(p), path))
  IN IF l.ok THEN Ok(Arr(SelectSeq(l.value, keep))) ELSE l

RECURSIVE SlugsOf(_, _)
SlugsOf(list, path) ==
  IF list = <<>> THEN <<>>
  ELSE LET page == Head(list)
       IN (IF /\ startsWith(PathOf(page), path)
              /\ "_slug" \in DOMAIN page
              /\ page._slug.j = "str"
           THEN <<page._slug.s>> ELSE <<>>) \o SlugsOf(Tail(list), path)

\* extractSlugs that takes every declared _slug, a string or not
extractSlugsDeclared(pages, path) ==
  LET l == PagesList(pages)
      has(page) == startsWith(PathOf(page), path) /\ "_slug" \in DOMAIN page
      sel == SelectSeq(l.value, has)
  IN IF l.ok
     THEN Ok(Arr([i \in 1..Len(sel) |->
                    IF sel[i]._slug.j = "str" THEN sel[i]._slug.s ELSE "7"]))
     ELSE l

extractSlugs(pages, path) ==
  LET l == PagesList(pages)
  IN IF l.ok THEN Ok(Arr(SlugsOf(l.value, path))) ELSE l

\* FindPage without the `?? null`
FindPageOrUndefined(list, path) ==
  IF \E i \in 1..Len(list) : PathOf(list[i]) = path
  THEN list[CHOOSE i \in 1..Len(list) :
              /\ PathOf(list[i]) = path
              /\ \A k \in 1..(i - 1) : PathOf(list[k]) # path]
  ELSE Undefined

\* pages.find(p => p._path === path) ?? null
FindPage(list, path) ==
  IF \E i \in 1..Len(list) : PathOf(list[i]) = path
  THEN list[CHOOSE i \in 1..Len(list) :
              /\ PathOf(list[i]) = path
              /\ \A k \in 1..(i - 1) : PathOf(list[k]) # path]
  ELSE JNull

(***************************************************************************)
(* The accessors of the sync client (createClient) over its document.      *)
(* An argument is a record: q a query, path a path, name a name or handle. *)
(***************************************************************************)
Arg(q, path, name) == [q |-> q, path |-> path, name |-> name]

SyncAccessor(data, acc, arg) ==
  CASE acc = "getContent" -> Ok(applyJmes(data, arg.q))
    [] acc = "getPages" ->
         IF arg.path = <<>> THEN Err(Required("path is required for getPages"))
         ELSE IF IsNullish(data) THEN Err(TypeError)
         ELSE filterPagesByPath(Member(data, "pages"), arg.path)
    [] acc = "getPage" ->
         IF arg.path = <<>> THEN Err(Required("path is required for getPage"))
         ELSE IF IsNullish(data) THEN Err(TypeError)
         ELSE LET l == PagesList(Member(data, "pages"))
              IN IF l.ok THEN Ok(FindPage(l.value, arg.path)) ELSE l
    [] acc = "getEntry" ->
         IF arg.name = "" THEN Err(Required("handle is required for getEntry"))
         ELSE IF IsNullish(data) THEN Err(TypeError)
         ELSE LET entries == Member(data, "entries")
                  entry == IF IsNullish(entries) THEN Undefined
                           ELSE Member(entries, arg.name)
              IN Ok(IF IsNullish(entry) THEN JNull ELSE entry)
    [] acc = "getSlugs" ->
         IF arg.path = <<>> THEN Err(Required("path is required for getSlugs"))
         ELSE IF IsNullish(data) THEN Err(TypeError)
         ELSE extractSlugs(Member(data, "pages"), arg.path)
    [] acc = "getImage" ->
         IF arg.name = "" THEN Ok(JNull)
         ELSE IF IsNullish(data) THEN Err(TypeError)
         ELSE LET images == Member(data, "images")
              IN Ok(IF Truthy(images) THEN Member(images, arg.name) ELSE JNull)
    [] acc = "getOptions" ->
         IF arg.name = "" THEN Ok(JNull)
         ELSE IF IsNullish(data) THEN Err(TypeError)
         ELSE LET options == Member(data, "options")
                  optionSet == IF IsNullish(options) THEN Undefined
                               ELSE Member(options, arg.name)
              IN Ok(IF optionSet.j = "arr" THEN optionSet ELSE JNull)

\* SearchOf that sends only the first identifier of a getContent query
SearchOfFirst(acc, arg) ==
  CASE acc = "getContent" -> IF arg.q = <<>> THEN <<>> ELSE <<Head(arg.q)>>
    [] acc \in {"getPages", "getPage", "getSlugs"} -> <<"pages">>
    [] acc = "getEntry" -> <<"entries", arg.name>>
    [] acc = "getImage" -> <<"images">>
    [] acc = "getOptions" -> <<"options">>

(***************************************************************************)
(* The accessors of the async client before the upgrade: the selector each *)
(* one fetches, and what it makes of the fetched value.                    *)
(***************************************************************************)
SearchOf(acc, arg) ==
  CASE acc = "getContent" -> arg.q
    [] acc \in {"getPages", "getPage", "getSlugs"} -> <<"pages">>
    [] acc = "getEntry" -> <<"entries", arg.name>>
    [] acc = "getImage" -> <<"images">>
    [] acc = "getOptions" -> <<"options">>

AsyncAccessor(fetched, acc, arg) ==
  CASE acc = "getContent" -> Ok(fetched)
    [] acc = "getPages" ->
         IF arg.path = <<>> THEN Ok(fetched)
         ELSE filterPagesByPath(fetched, arg.path)
    [] acc = "getPage" ->
         IF IsNullish(fetched) THEN Ok(JNull)
         ELSE LET l == PagesList(fetched)
              IN IF l.ok THEN Ok(FindPage(l.value, arg.path)) ELSE l
    [] acc = "getEntry" -> Ok(fetched)
    [] acc = "getSlugs" -> extractSlugs(fetched, arg.path)
    [] acc = "getImage" ->
         Ok(IF Truthy(fetched) THEN Member(fetched, arg.name) ELSE JNull)
    [] acc = "getOptions" ->
         IF IsNullish(fetched) THEN Err(TypeError)
         ELSE LET optionSet == Member(fetched, arg.name)
              IN Ok(IF optionSet.j = "arr" THEN optionSet ELSE JNull)


(***************************************************************************)
(* Clients.                                                                *)
(***************************************************************************)
NoArg == Arg(NoSearch, <<>>, "")

NoClient ==
  [set |-> FALSE, data |-> Undefined, gets |-> 0, posts |-> 0, reads |-> 0,
   writes |-> 0, fromEmpty |-> FALSE, mustResolve |-> FALSE]

\* the sync client createClient returns when its fetch c has succeeded
ClientOf(c) ==
  [set |-> TRUE, data |-> c.value, gets |-> c.gets, posts |-> c.posts,
   reads |-> c.reads, writes |-> c.writes, fromEmpty |-> c.fromEmpty,
   mustResolve |-> c.resolveEnv /\ ~c.memoHit]

\* createClient(o): its fetch, from the call to the first await; the cache
\* is o.cache ?? new MemoryCache()
StartCreate(o, memo, st, ad) ==
  Begin(NewCall("createClient", NoArg, NoSearch, o.resolveEnv,
                o.cacheMinutes, TRUE), memo, st, ad)

\* StartSync with a getContent(query) that asks the server again
StartSyncRefetch(cl, acc, arg) ==
  LET r == SyncAccessor(cl.data, acc, arg)
  IN [NewCall(acc, arg, NoSearch, FALSE, 0, FALSE)
        EXCEPT !.pc = "done", !.local = TRUE, !.ok = r.ok, !.value = r.value,
               !.gets = IF acc = "getContent" /\ arg.q # NoSearch THEN 1 ELSE 0]

\* an accessor of the sync client: a read of the document, no I/O
StartSync(cl, acc, arg) ==
  LET r == SyncAccessor(cl.data, acc, arg)
  IN [NewCall(acc, arg, NoSearch, FALSE, 0, FALSE)
        EXCEPT !.pc = "done", !.local = TRUE, !.ok = r.ok, !.value = r.value]

\* StartAsync whose getImage lacks the delegation to the sync client
StartAsyncImageFetches(sc, acc, arg, memo, st, ad) ==
  IF sc.set /\ acc # "getImage" THEN StartSync(sc, acc, arg)
  ELSE Begin(NewCall(acc, arg, SearchOf(acc, arg), FALSE, 0, TRUE),
             memo, st, ad)

\* StartAsync whose query-less getContent fetches the document every time
StartAsyncRefetch(sc, acc, arg, memo, st, ad) ==
  IF sc.set /\ ~(acc = "getContent" /\ arg.q = NoSearch)
  THEN StartSync(sc, acc, arg)
  ELSE Begin(NewCall(acc, arg, SearchOf(acc, arg), FALSE, 0, TRUE),
             memo, st, ad)

\* an accessor of the async client, from the call to the first await:
\* delegated to the internal sync client once that is set, else a fetch of
\* the accessor's selector (the full document for a query-less getContent)
StartAsync(sc, acc, arg, memo, st, ad) ==
  IF sc.set THEN StartSync(sc, acc, arg)
  ELSE Begin(NewCall(acc, arg, SearchOf(acc, arg), FALSE, 0, TRUE),
             memo, st, ad)

\* Upgrades of a getContent that keeps whatever it fetched, with or without
\* a query
UpgradesOnAnyQuery(c) == c.kind = "getContent" /\ ~c.local /\ c.ok

\* Upgrades of a getContent that keeps no sync client
UpgradesNever(c) == FALSE

\* does the completed call c set the async client's internal sync client
Upgrades(c) ==
  c.kind = "getContent" /\ c.search = NoSearch /\ ~c.local /\ c.ok

\* what the caller of the completed call c gets
ResultOf(c) ==
  IF ~c.ok THEN Err(c.value)
  ELSE IF c.local THEN Ok(c.value)
  ELSE IF c.kind \in {"fetch", "createClient", "fetcher"} THEN Ok(c.value)
  ELSE IF Upgrades(c) THEN SyncAccessor(c.value, c.kind, c.arg)
  ELSE AsyncAccessor(c.value, c.kind, c.arg)

NoLast ==
  [call |-> [NewCall("none", NoArg, NoSearch, FALSE, 0, FALSE)
               EXCEPT !.pc = "none"],
   res |-> Ok(Undefined)]

\* the call i has completed as c
Finish(i, c) ==
  /\ calls' = [calls EXCEPT ![i] = Idle]
  /\ last' = [call |-> c, res |-> ResultOf(c)]
  /\ syncClient' = IF Upgrades(c) THEN ClientOf(c) ELSE syncClient
  /\ client' = IF c.kind = "createClient" /\ c.ok THEN ClientOf(c) ELSE client

\* the call i goes on as c, or has completed as c
Continue(i, c) ==
  IF c.pc = "done" THEN Finish(i, c)
  ELSE /\ calls' = [calls EXCEPT ![i] = c]
       /\ last' = NoLast
       /\ UNCHANGED <<syncClient, client>>

(***************************************************************************)
(* createFetchSiteContent (lib): a fetcher that keeps the document it has  *)
(* fetched in its closure.                                                 *)
(***************************************************************************)
EmptyToken == <<"">>                     \* "".split("-")
DevToken == <<"dev", "site1", "key1">>

isDevToken(token) == Len(token) >= 2 /\ token[1] = "dev"

\* the lib's getBaseUrl for devEnv 'production'
getBaseUrlLib(token) ==
  [host |-> "sleekcms.com", prefix |-> Part(token, 1), site |-> Part(token, 2)]

\* the URL the fetcher builds
FetcherUrl(token, env, search, mock) ==
  [base |-> getBaseUrlLib(token), env |-> env, search |-> search,
   mock |-> mock]

NoFetcher ==
  [made |-> FALSE, siteToken |-> EmptyToken, mock |-> FALSE, cache |-> FALSE,
   cacheMode |-> FALSE, cachedContent |-> JNull,
   \* history: network requests issued, a call has failed
   requests |-> 0, failed |-> FALSE]

\* the closure createFetchSiteContent(o) sets up
createFetchSiteContent(o) ==
  [made |-> TRUE, siteToken |-> o.siteToken, mock |-> o.mock,
   cache |-> o.cache,
   cacheMode |-> (o.cache \/ (o.mock /\ isDevToken(o.siteToken))),
   cachedContent |-> JNull, requests |-> 0, failed |-> FALSE]

\* StartFetcher that uses the held document only for a fetcher created
\* with cache mode, or for a call without a query
StartFetcherQueryRemote(f, searchQuery) ==
  LET held == Truthy(f.cachedContent)
                /\ (f.cache \/ searchQuery = NoSearch)
      sent == IF searchQuery # NoSearch /\ ~f.cache THEN searchQuery
              ELSE NoSearch
      c == [NewCall("fetcher", Arg(searchQuery, <<>>, ""), sent, FALSE, 0,
                    FALSE)
              EXCEPT !.siteToken = f.siteToken,
                     !.upgraded = Truthy(f.cachedContent),
                     !.url = FetcherUrl(f.siteToken, Alias, sent,
                                        f.mock /\ isDevToken(f.siteToken))]
  IN IF f.siteToken = EmptyToken
     THEN Throw(c, Required("siteToken is required"))
     ELSE IF held
     THEN Return([c EXCEPT !.local = TRUE],
                 applyJmes(f.cachedContent, searchQuery))
     ELSE IssueGet(c)

\* the call of the fetcher f with searchQuery, from its start to the await
\* of fetch; upgraded notes that f held a document when the call started
StartFetcher(f, searchQuery) ==
  LET sent == IF searchQuery # NoSearch /\ ~f.cacheMode
                 /\ ~Truthy(f.cachedContent)
              THEN searchQuery ELSE NoSearch
      c == [NewCall("fetcher", Arg(searchQuery, <<>>, ""), sent, FALSE, 0,
                    FALSE)
              EXCEPT !.siteToken = f.siteToken,
                     !.upgraded = Truthy(f.cachedContent),
                     !.url = FetcherUrl(f.siteToken, Alias, sent,
                                        f.mock /\ isDevToken(f.siteToken))]
  IN IF f.siteToken = EmptyToken
     THEN Throw(c, Required("siteToken is required"))
     ELSE IF Truthy(f.cachedContent)
     THEN Return([c EXCEPT !.local = TRUE],
                 applyJmes(f.cachedContent, searchQuery))
     ELSE IssueGet(c)

\* the fetcher's call c after the await of fetch and of res.json()
AfterFetcherGet(c, resp) ==
  LET c1 == [c EXCEPT !.resp = resp]
  IN IF resp.kind = "ok" THEN Return(c1, resp.body)
     ELSE Throw(c1, ErrorOf(resp))

\* the closure after the call c has got resp
FetcherAfterGet(f, c, resp) ==
  IF resp.kind = "ok" /\ c.arg.q = NoSearch
  THEN [f EXCEPT !.cachedContent = resp.body, !.cacheMode = TRUE]
  ELSE f

(***************************************************************************)
(* Actions.  last is the call that returned in the step just taken.        *)
(***************************************************************************)
CallIds == 1..MaxCalls
Pending == {i \in DOMAIN calls : calls[i].pc # "idle"}

SearchChoices == {NoSearch, <<"pages">>}

CanCall == started < MaxCalls /\ Cardinality(Pending) < MaxPending

\* the call c as it starts, with what holds at that moment noted in it
Noted(c) ==
  [c EXCEPT !.upgraded = syncClient.set,
            !.seen = c.url \in DOMAIN served,
            !.fromEmpty = (DOMAIN store = {}),
            !.tagAt = IF <<c.siteToken, c.env>> \in DOMAIN envTagCache
                      THEN envTagCache[<<c.siteToken, c.env>>] ELSE NoTag]

\* a caller calls fetchSiteContent(opts) with some search, one call at a time
FetchCall ==
  /\ started < MaxCalls
  /\ Pending = {}
  /\ \E search \in SearchChoices :
       Continue(started + 1,
                Noted(Begin(NewCall("fetch", Arg(search, <<>>, ""), search,
                                    opts.resolveEnv, opts.cacheMinutes,
                                    opts.cache),
                            envTagCache, store, adapter)))
  /\ started' = started + 1
  /\ UNCHANGED <<now, serverVer, envTagCache, store, adapter, opts, fetcher,
                 served, overlapped, writer>>

\* what the fetch c asks for and with which credential
RequestOf(c) ==
  [siteToken |-> c.siteToken, env |-> c.url.env, search |-> c.search,
   lang |-> c.lang]

\* the resolve POST of call i is answered
ResolveDone(i) ==
  /\ calls[i].pc = "resolving"
  /\ \E resp \in PostResponses(serverVer) :
       LET c == [calls[i] EXCEPT !.post = resp]
           tag == fetchEnvTag(resp, c.env)
       IN /\ envTagCache' = (<<c.siteToken, c.env>> :> tag) @@ envTagCache
          /\ Continue(i, AfterResolve(c, tag, StoreOf(c, store),
                                      AdapterOf(c, adapter)))
  /\ UNCHANGED <<now, serverVer, store, adapter, opts, fetcher, started,
                 served, overlapped, writer>>

\* getItem's result reaches call i
ReadDone(i) ==
  /\ calls[i].pc = "reading"
  /\ Continue(i, AfterRead(calls[i], now))
  /\ UNCHANGED <<now, serverVer, envTagCache, store, adapter, opts, fetcher,
                 started, served, overlapped, writer>>

\* the content GET of call i is answered
GetDone(i) ==
  /\ calls[i].pc = "getting"
  /\ calls[i].kind # "fetcher"
  /\ \E resp \in GetResponses(calls[i].url, serverVer) :
       /\ store' = IF calls[i].own THEN store
                   ELSE StoreAfterGet(calls[i], resp, adapter, store, now)
       /\ served' = IF resp.kind = "ok"
                    THEN (calls[i].url :> resp.body) @@ served ELSE served
       /\ writer' = IF ~calls[i].own /\ Writes(calls[i], resp, adapter)
                    THEN (calls[i].url :> RequestOf(calls[i])) @@ writer
                    ELSE writer
       /\ Continue(i, AfterGet(calls[i], resp, AdapterOf(calls[i], adapter)))
  /\ UNCHANGED <<now, serverVer, envTagCache, adapter, opts, fetcher, started,
                 overlapped>>

\* half a minute passes (a call takes less than that)
Tick ==
  /\ now < MaxTicks * TickMs
  /\ Pending = {}
  /\ now' = now + TickMs
  /\ last' = NoLast
  /\ UNCHANGED <<serverVer, envTagCache, store, adapter, opts, fetcher, calls,
                 started, syncClient, client, served, overlapped, writer>>

\* the caller calls clearEnvTagCache() between two fetches: the env-tag memo
\* is emptied
clearEnvTagCache ==
  /\ envTagCache # <<>>
  /\ Pending = {}
  /\ envTagCache' = <<>>
  /\ last' = NoLast
  /\ UNCHANGED <<now, serverVer, store, adapter, opts, fetcher, calls,
                 started, syncClient, client, served, overlapped, writer>>

\* the site is published again: the alias points at a new version
Publish ==
  /\ serverVer < MaxVer
  /\ serverVer' = serverVer + 1
  /\ last' = NoLast
  /\ UNCHANGED <<now, envTagCache, store, adapter, opts, fetcher, calls,
                 started, syncClient, client, served, overlapped, writer>>

(***************************************************************************)
(* Initial states: an adapter that works or fails, whose store is empty    *)
(* or holds, under the URL of the full document, something written before. *)
(***************************************************************************)
Adapter(async, getFails, setFails, fresh) ==
  [async |-> async, getFails |-> getFails, setFails |-> setFails,
   fresh |-> fresh]                      \* fresh: its store starts empty

Adapters ==
  { Adapter(FALSE, FALSE, FALSE, f) : f \in BOOLEAN } \cup
  { Adapter(FALSE, FALSE, TRUE, f) : f \in BOOLEAN } \cup
  { Adapter(FALSE, TRUE, FALSE, TRUE), Adapter(TRUE, TRUE, FALSE, TRUE),
    Adapter(TRUE, TRUE, TRUE, TRUE) }

Works(ad) == ~ad.getFails /\ ~ad.setFails

FullUrl == getUrl(SiteToken, Alias, NoSearch, NoLang)

OldTexts ==
  { GarbageText, EmptyText, JSONstringify(JNull),
    JSONstringify(CacheData(Doc(0), 0)),
    JSONstringify(Obj([_ts |-> Num(0)])),
    JSONstringify(Doc(0)) }

InitStores == { <<>> } \cup { FullUrl :> t : t \in OldTexts }

MinuteChoices == {0, 1}                  \* 0: cacheMinutes is not set

Options == [resolveEnv : BOOLEAN, cacheMinutes : MinuteChoices, cache : BOOLEAN]

\* the process before any call, with room for the calls ids
InitState(ids) ==
  /\ now = 0
  /\ serverVer = 1
  /\ envTagCache = <<>>
  /\ calls = [i \in ids |-> Idle]
  /\ last = NoLast
  /\ started = 0
  /\ syncClient = NoClient
  /\ client = NoClient
  /\ served = <<>>
  /\ overlapped = FALSE
  /\ fetcher = NoFetcher
  /\ writer = <<>>

InitCommon == InitState(CallIds)

InitFetch ==
  /\ InitCommon
  /\ opts \in Options
  /\ adapter \in Adapters
  /\ store \in InitStores
  /\ adapter.fresh <=> DOMAIN store = {}
  /\ ~opts.cache => Works(adapter) /\ adapter.fresh

NextFetch ==
  \/ FetchCall
  \/ \E i \in CallIds : ResolveDone(i)
  \/ \E i \in CallIds : ReadDone(i)
  \/ \E i \in CallIds : GetDone(i)
  \/ Tick
  \/ Publish

SpecFetch == InitFetch /\ [][NextFetch]_vars

(***************************************************************************)
(* fetchSiteContent with no cacheMinutes, in a process whose caller may    *)
(* empty the env-tag memo between two fetches.                             *)
(***************************************************************************)
InitResolve ==
  /\ InitFetch
  /\ opts.cache
  /\ opts.cacheMinutes = 0

NextResolve ==
  \/ FetchCall
  \/ \E i \in CallIds : ResolveDone(i)
  \/ \E i \in CallIds : ReadDone(i)
  \/ \E i \in CallIds : GetDone(i)
  \/ Publish
  \/ clearEnvTagCache

SpecResolve == InitResolve /\ [][NextResolve]_vars


(***************************************************************************)
(* The sync client: createClient(opts), then its accessors.                *)
(***************************************************************************)
Accessors ==
  { [acc |-> "getContent", arg |-> NoArg],
    [acc |-> "getContent", arg |-> Arg(<<"pages">>, <<>>, "")],
    [acc |-> "getPages", arg |-> Arg(NoSearch, PathB, "")],
    [acc |-> "getPage", arg |-> Arg(NoSearch, PathB, "")],
    [acc |-> "getEntry", arg |-> Arg(NoSearch, <<>>, "foo")],
    [acc |-> "getSlugs", arg |-> Arg(NoSearch, PathB, "")],
    [acc |-> "getImage", arg |-> Arg(NoSearch, <<>>, "logo")],
    [acc |-> "getOptions", arg |-> Arg(NoSearch, <<>>, "cats")] }

\* a caller calls createClient(opts), one construction at a time
CreateClient ==
  /\ started < MaxCalls
  /\ Pending = {}
  /\ Continue(started + 1,
              Noted(StartCreate(opts, envTagCache, store, adapter)))
  /\ started' = started + 1
  /\ UNCHANGED <<now, serverVer, envTagCache, store, adapter, opts, fetcher,
                 served, overlapped, writer>>

\* the totals of a client with the requests and adapter calls of c added
Charged(cl, c) ==
  [cl EXCEPT !.gets = @ + c.gets, !.posts = @ + c.posts,
             !.reads = @ + c.reads, !.writes = @ + c.writes]

\* a caller calls an accessor of the client createClient returned
SyncCall ==
  /\ started < MaxCalls
  /\ client.set
  /\ \E a \in Accessors :
       LET c == Noted(StartSync(client, a.acc, a.arg))
       IN /\ last' = [call |-> c, res |-> ResultOf(c)]
          /\ client' = Charged(client, c)
  /\ started' = started + 1
  /\ UNCHANGED <<now, serverVer, envTagCache, store, adapter, opts, fetcher,
                 calls, syncClient, served, overlapped, writer>>

InitSync ==
  /\ InitCommon
  /\ opts \in {o \in Options : o.cache}
  /\ adapter \in Adapters
  /\ store \in InitStores
  /\ adapter.fresh <=> DOMAIN store = {}

NextSync ==
  \/ CreateClient
  \/ SyncCall
  \/ \E i \in CallIds : ResolveDone(i)
  \/ \E i \in CallIds : ReadDone(i)
  \/ \E i \in CallIds : GetDone(i)
  \/ Tick
  \/ Publish

SpecSync == InitSync /\ [][NextSync]_vars

(***************************************************************************)
(* The async client: createAsyncClient(opts), then its accessors, which    *)
(* may be called while earlier calls are still awaiting.  The client       *)
(* passes no cacheMinutes to its fetches, so the clock stands still here.  *)
(***************************************************************************)
AsyncCall ==
  /\ CanCall
  /\ \E a \in Accessors :
       Continue(started + 1,
                Noted(StartAsync(syncClient, a.acc, a.arg, envTagCache, store,
                                 adapter)))
  /\ started' = started + 1
  /\ overlapped' = (overlapped \/ Pending # {})
  /\ UNCHANGED <<now, serverVer, envTagCache, store, adapter, opts, fetcher,
                 served, writer>>

PagesUrl == getUrl(SiteToken, Alias, <<"pages">>, NoLang)

AsyncStores ==
  { <<>>,
    PagesUrl :> JSONstringify(CacheData(Arr(Pages(0)), 0)),
    PagesUrl :> JSONstringify(Arr(Pages(0))),
    FullUrl :> JSONstringify(CacheData(Doc(0), 0)) }

InitAsync ==
  /\ InitCommon
  /\ opts \in {o \in Options : o.cache /\ (o.resolveEnv <=> o.cacheMinutes # 0)}
  /\ adapter \in {a \in Adapters : a.async = a.getFails}
  /\ store \in AsyncStores
  /\ adapter.fresh <=> DOMAIN store = {}

NextAsync ==
  \/ AsyncCall
  \/ \E i \in CallIds : ReadDone(i)
  \/ \E i \in CallIds : GetDone(i)
  \/ Publish

SpecAsync == InitAsync /\ [][NextAsync]_vars

(***************************************************************************)
(* Several clients in one process: each createClient(opts) is given the    *)
(* caller's adapter or makes a MemoryCache of its own; the env-tag memo is *)
(* the module's.                                                           *)
(***************************************************************************)
\* createClient(o) without o.cache: the fetch works on a new MemoryCache
StartCreateDefault(o, memo, st, ad) ==
  LET c == [NewCall("createClient", NoArg, NoSearch, o.resolveEnv,
                    o.cacheMinutes, TRUE) EXCEPT !.own = TRUE]
  IN Begin(c, memo, StoreOf(c, st), AdapterOf(c, ad))

CreateInstance ==
  /\ started < MaxCalls
  /\ Pending = {}
  /\ \E own \in BOOLEAN :
       Continue(started + 1,
                Noted(IF own
                      THEN StartCreateDefault(opts, envTagCache, store, adapter)
                      ELSE StartCreate(opts, envTagCache, store, adapter)))
  /\ started' = started + 1
  /\ UNCHANGED <<now, serverVer, envTagCache, store, adapter, opts, fetcher,
                 served, overlapped, writer>>

InitInstances ==
  /\ InitCommon
  /\ opts \in {o \in Options : o.cache /\ o.cacheMinutes = 0}
  /\ adapter \in {a \in Adapters : Works(a)}
  /\ store \in InitStores
  /\ adapter.fresh <=> DOMAIN store = {}

NextInstances ==
  \/ CreateInstance
  \/ \E i \in CallIds : ResolveDone(i)
  \/ \E i \in CallIds : ReadDone(i)
  \/ \E i \in CallIds : GetDone(i)
  \/ Publish

SpecInstances == InitInstances /\ [][NextInstances]_vars

\* the async client while time passes between its calls
NextAsyncClock ==
  \/ NextAsync
  \/ Tick

SpecAsyncClock == InitAsync /\ [][NextAsyncClock]_vars

(***************************************************************************)
(* The async client with calls that overlap: up to MaxOverlap accessor     *)
(* calls await at the same time, and one more call can follow them.        *)
(***************************************************************************)
OverlapIds == 1..(MaxOverlap + 1)

OverlapAccessors ==
  {a \in Accessors : a.arg = NoArg \/ a.acc = "getImage"}

OverlappingCall ==
  /\ started < MaxOverlap + 1
  /\ Cardinality(Pending) < MaxOverlap
  /\ \E a \in OverlapAccessors :
       Continue(started + 1,
                Noted(StartAsync(syncClient, a.acc, a.arg, envTagCache, store,
                                 adapter)))
  /\ started' = started + 1
  /\ overlapped' = (overlapped \/ Pending # {})
  /\ UNCHANGED <<now, serverVer, envTagCache, store, adapter, opts, fetcher,
                 served, writer>>

InitOverlap ==
  /\ InitState(OverlapIds)
  /\ opts = [resolveEnv |-> FALSE, cacheMinutes |-> 0, cache |-> TRUE]
  /\ adapter \in {a \in Adapters : a.async = a.getFails}
  /\ store \in AsyncStores
  /\ adapter.fresh <=> DOMAIN store = {}

NextOverlap ==
  \/ OverlappingCall
  \/ \E i \in OverlapIds : ReadDone(i)
  \/ \E i \in OverlapIds : GetDone(i)
  \/ Publish

SpecOverlap == InitOverlap /\ [][NextOverlap]_vars

(***************************************************************************)
(* getContent(E) of the async client over several expressions E: a call    *)
(* before the upgrade, the upgrade, and a call after it.                   *)
(***************************************************************************)
Expressions == {<<"pages">>, <<"images", "logo">>, <<"missing">>}

QueryIds == 1..(MaxCalls + 1)

\* a caller calls getContent(E) or getContent(), one call at a time
QueryCall ==
  /\ started < MaxCalls + 1
  /\ Pending = {}
  /\ \E q \in Expressions \cup {NoSearch} :
       Continue(started + 1,
                Noted(StartAsync(syncClient, "getContent", Arg(q, <<>>, ""),
                                 envTagCache, store, adapter)))
  /\ started' = started + 1
  /\ UNCHANGED <<now, serverVer, envTagCache, store, adapter, opts, fetcher,
                 served, overlapped, writer>>

InitQuery ==
  /\ InitState(QueryIds)
  /\ opts = [resolveEnv |-> FALSE, cacheMinutes |-> 0, cache |-> TRUE]
  /\ adapter \in {a \in Adapters : a.async = a.getFails}
  /\ store \in AsyncStores
  /\ adapter.fresh <=> DOMAIN store = {}

NextQuery ==
  \/ QueryCall
  \/ \E i \in QueryIds : ReadDone(i)
  \/ \E i \in QueryIds : GetDone(i)
  \/ Publish

SpecQuery == InitQuery /\ [][NextQuery]_vars

(***************************************************************************)
(* The page accessors getPages, getSlugs and getPage, of a sync client     *)
(* and of the async client before and after its upgrade, over the paths    *)
(* of PagePaths: no path, a prefix of several pages, one page's path, the  *)
(* path of no page.                                                        *)
(***************************************************************************)
PagePaths == {<<>>, PathB, PathA, PathZ}

PageAccessors ==
  { [acc |-> a, arg |-> Arg(NoSearch, path, "")] :
      a \in {"getPages", "getSlugs", "getPage"}, path \in PagePaths }

\* a caller calls a page accessor of the client createClient returned
PageSyncCall ==
  /\ started < MaxCalls
  /\ client.set
  /\ \E a \in PageAccessors :
       LET c == StartSync(client, a.acc, a.arg)
       IN /\ last' = [call |-> c, res |-> ResultOf(c)]
          /\ client' = Charged(client, c)
  /\ started' = started + 1
  /\ UNCHANGED <<now, serverVer, envTagCache, store, adapter, opts, fetcher,
                 calls, syncClient, served, overlapped, writer>>

\* a caller calls getContent() or a page accessor of the async client
PageAsyncCall ==
  /\ CanCall
  /\ \E a \in PageAccessors \cup {[acc |-> "getContent", arg |-> NoArg]} :
       Continue(started + 1,
                Noted(StartAsync(syncClient, a.acc, a.arg, envTagCache, store,
                                 adapter)))
  /\ started' = started + 1
  /\ overlapped' = (overlapped \/ Pending # {})
  /\ UNCHANGED <<now, serverVer, envTagCache, store, adapter, opts, fetcher,
                 served, writer>>

InitPages ==
  /\ InitCommon
  /\ opts = [resolveEnv |-> FALSE, cacheMinutes |-> 0, cache |-> TRUE]
  /\ adapter \in {a \in Adapters : Works(a)}
  /\ store \in AsyncStores
  /\ adapter.fresh <=> DOMAIN store = {}

NextPages ==
  \/ CreateClient
  \/ PageSyncCall
  \/ PageAsyncCall
  \/ \E i \in CallIds : ReadDone(i)
  \/ \E i \in CallIds : GetDone(i)
  \/ Publish

SpecPages == InitPages /\ [][NextPages]_vars

(***************************************************************************)
(* The fetcher of createFetchSiteContent: it is made, then called.         *)
(***************************************************************************)
FetcherTokens == {SiteToken, DevToken, EmptyToken}

\* a caller calls createFetchSiteContent(o)
CreateFetcher ==
  /\ ~fetcher.made
  /\ \E o \in [siteToken : FetcherTokens, cache : BOOLEAN, mock : BOOLEAN] :
       fetcher' = createFetchSiteContent(o)
  /\ last' = NoLast
  /\ UNCHANGED <<now, serverVer, envTagCache, store, adapter, opts, calls,
                 started, syncClient, client, served, overlapped, writer>>

\* a caller calls the fetcher, with a query or without
FetcherCall ==
  /\ fetcher.made
  /\ CanCall
  /\ \E q \in SearchChoices :
       LET c == StartFetcher(fetcher, q)
       IN /\ Continue(started + 1, c)
          /\ fetcher' = [fetcher EXCEPT !.requests = @ + c.gets,
                                        !.failed = @ \/ ~c.ok]
  /\ started' = started + 1
  /\ overlapped' = (overlapped \/ Pending # {})
  /\ UNCHANGED <<now, serverVer, envTagCache, store, adapter, opts, served,
                 writer>>

\* the GET of the fetcher's call i is answered
FetcherGetDone(i) ==
  /\ calls[i].pc = "getting"
  /\ calls[i].kind = "fetcher"
  /\ \E resp \in GetResponses(calls[i].url, serverVer) :
       /\ Continue(i, AfterFetcherGet(calls[i], resp))
       /\ fetcher' = [FetcherAfterGet(fetcher, calls[i], resp)
                        EXCEPT !.failed = @ \/ resp.kind # "ok"]
  /\ UNCHANGED <<now, serverVer, envTagCache, store, adapter, opts, started,
                 served, overlapped, writer>>

InitFetcher ==
  /\ InitCommon
  /\ opts = [resolveEnv |-> FALSE, cacheMinutes |-> 0, cache |-> FALSE]
  /\ adapter = MemoryCache
  /\ store = <<>>

NextFetcher ==
  \/ CreateFetcher
  \/ FetcherCall
  \/ \E i \in CallIds : FetcherGetDone(i)
  \/ Publish

SpecFetcher == InitFetcher /\ [][NextFetcher]_vars

(***************************************************************************)
(* Credentials: the fetcher above and fetchSiteContent (index), each       *)
(* given a credential that may be the empty string.                        *)
(***************************************************************************)
\* a caller calls fetchSiteContent({siteToken: token, ...opts}), one call at
\* a time
TokenFetchCall ==
  /\ started < MaxCalls
  /\ Pending = {}
  /\ \E token \in {SiteToken, EmptyToken} :
       Continue(started + 1,
                Noted(Begin([NewCall("fetch", NoArg, NoSearch, opts.resolveEnv,
                                     opts.cacheMinutes, opts.cache)
                               EXCEPT !.siteToken = token,
                                      !.url = getUrl(token, Alias, NoSearch,
                                                     NoLang)],
                            envTagCache, store, adapter)))
  /\ started' = started + 1
  /\ UNCHANGED <<now, serverVer, envTagCache, store, adapter, opts, fetcher,
                 served, overlapped, writer>>

InitCredential ==
  /\ InitCommon
  /\ opts \in [resolveEnv : BOOLEAN, cacheMinutes : {0}, cache : BOOLEAN]
  /\ adapter = MemoryCache
  /\ store = <<>>

NextCredential ==
  \/ CreateFetcher
  \/ FetcherCall
  \/ \E i \in CallIds : FetcherGetDone(i)
  \/ TokenFetchCall
  \/ \E i \in CallIds : ResolveDone(i)
  \/ \E i \in CallIds : ReadDone(i)
  \/ \E i \in CallIds : GetDone(i)

SpecCredential == InitCredential /\ [][NextCredential]_vars

(***************************************************************************)
(* fetchSiteContent with resolveEnv, called while other fetches with the   *)
(* same credential and alias await.                                        *)
(***************************************************************************)
OverlappingFetch ==
  /\ started < MaxOverlap + 1
  /\ Cardinality(Pending) < MaxOverlap
  /\ Continue(started + 1,
              Noted(Begin(NewCall("fetch", NoArg, NoSearch, opts.resolveEnv,
                                  opts.cacheMinutes, opts.cache),
                          envTagCache, store, adapter)))
  /\ started' = started + 1
  /\ overlapped' = (overlapped \/ Pending # {})
  /\ UNCHANGED <<now, serverVer, envTagCache, store, adapter, opts, fetcher,
                 served, writer>>

InitOverlapFetch ==
  /\ InitState(OverlapIds)
  /\ opts = [resolveEnv |-> TRUE, cacheMinutes |-> 0, cache |-> TRUE]
  /\ adapter \in {a \in Adapters : Works(a) /\ a.fresh}
  /\ store = <<>>

NextOverlapFetch ==
  \/ OverlappingFetch
  \/ \E i \in OverlapIds : ResolveDone(i)
  \/ \E i \in OverlapIds : ReadDone(i)
  \/ \E i \in OverlapIds : GetDone(i)
  \/ Publish

SpecOverlapFetch == InitOverlapFetch /\ [][NextOverlapFetch]_vars

(***************************************************************************)
(* getUrl as a function of its arguments.                                  *)
(***************************************************************************)
UrlTokens == {SiteToken, DevToken, EmptyToken}
UrlEnvs == {Undefined, Alias, TagOf(1), TagOf(2)}
Langs == {NoLang, "en"}

\* a caller builds the URL of a content request; last holds the arguments
\* and the URL
BuildUrl ==
  /\ \E token \in UrlTokens, env \in UrlEnvs, search \in SearchChoices,
        lang \in Langs, devEnv \in DevEnvs :
       last' = [call |-> [NoLast.call EXCEPT !.pc = "done", !.kind = "getUrl",
                                            !.siteToken = token, !.env = env,
                                            !.search = search, !.lang = lang,
                                            !.arg = devEnv],
                res |-> getUrlIn(token, env, search, lang, devEnv)]
  /\ UNCHANGED <<now, serverVer, envTagCache, store, adapter, opts, calls,
                 started, syncClient, client, served, overlapped, fetcher,
                 writer>>

InitUrl ==
  /\ InitCommon
  /\ opts = [resolveEnv |-> FALSE, cacheMinutes |-> 0, cache |-> FALSE]
  /\ adapter = MemoryCache
  /\ store = <<>>

NextUrl == BuildUrl

SpecUrl == InitUrl /\ [][NextUrl]_vars


(***************************************************************************)
(* One cache adapter shared by fetches that differ in credential,          *)
(* selector and language.                                                  *)
(***************************************************************************)
OtherSiteToken == <<"pub", "site2", "key1">>

\* the requests made on the shared adapter: they differ from the first in
\* the credential's first part, in the site, in the selector, in the language
SharedRequests ==
  { [siteToken |-> SiteToken, search |-> NoSearch, lang |-> NoLang],
    [siteToken |-> DevToken, search |-> NoSearch, lang |-> NoLang],
    [siteToken |-> OtherSiteToken, search |-> NoSearch, lang |-> NoLang],
    [siteToken |-> SiteToken, search |-> <<"pages">>, lang |-> NoLang],
    [siteToken |-> SiteToken, search |-> NoSearch, lang |-> "en"] }

\* a caller calls fetchSiteContent({siteToken, search, lang, cache, ...opts})
\* on the shared adapter, one call at a time
SharedFetchCall ==
  /\ started < MaxCalls
  /\ Pending = {}
  /\ \E r \in SharedRequests :
       Continue(started + 1,
                Noted(Begin([NewCall("fetch", Arg(r.search, <<>>, ""),
                                     r.search, opts.resolveEnv,
                                     opts.cacheMinutes, opts.cache)
                               EXCEPT !.siteToken = r.siteToken,
                                      !.lang = r.lang,
                                      !.url = getUrl(r.siteToken, Alias,
                                                     r.search, r.lang)],
                            envTagCache, store, adapter)))
  /\ started' = started + 1
  /\ UNCHANGED <<now, serverVer, envTagCache, store, adapter, opts, fetcher,
                 served, overlapped, writer>>

InitShared ==
  /\ InitCommon
  /\ opts \in {o \in Options : o.cache}
  /\ adapter \in {a \in Adapters : ~a.getFails}
  /\ store \in {<<>>, FullUrl :> JSONstringify(CacheData(Doc(0), 0)),
                FullUrl :> JSONstringify(Doc(0))}
  /\ adapter.fresh <=> DOMAIN store = {}

NextShared ==
  \/ SharedFetchCall
  \/ \E i \in CallIds : ResolveDone(i)
  \/ \E i \in CallIds : ReadDone(i)
  \/ \E i \in CallIds : GetDone(i)
  \/ Tick

SpecShared == InitShared /\ [][NextShared]_vars

(***************************************************************************)
(* Every accessor of the async client, before and after the upgrade, over  *)
(* an argument that is empty, present in the document, or absent from it.  *)
(***************************************************************************)
FacetAccessors ==
  { [acc |-> a, arg |-> Arg(NoSearch, path, "")] :
      a \in {"getPages", "getSlugs", "getPage"},
      path \in {<<>>, PathB, PathZ} } \cup
  { [acc |-> "getEntry", arg |-> Arg(NoSearch, <<>>, n)] :
      n \in {"", "foo", "none"} } \cup
  { [acc |-> "getImage", arg |-> Arg(NoSearch, <<>>, n)] :
      n \in {"", "logo", "none"} } \cup
  { [acc |-> "getOptions", arg |-> Arg(NoSearch, <<>>, n)] :
      n \in {"", "cats", "none"} }

\* a caller calls getContent() or an accessor of the async client, one call
\* at a time
FacetCall ==
  /\ started < MaxCalls
  /\ Pending = {}
  /\ \E a \in FacetAccessors \cup {[acc |-> "getContent", arg |-> NoArg]} :
       Continue(started + 1,
                Noted(StartAsync(syncClient, a.acc, a.arg, envTagCache, store,
                                 adapter)))
  /\ started' = started + 1
  /\ UNCHANGED <<now, serverVer, envTagCache, store, adapter, opts, fetcher,
                 served, overlapped, writer>>

\* the server document stays Doc(1) and the cache starts empty
InitFacets ==
  /\ InitCommon
  /\ opts = [resolveEnv |-> FALSE, cacheMinutes |-> 0, cache |-> TRUE]
  /\ adapter \in {a \in Adapters : Works(a) /\ a.fresh}
  /\ store = <<>>

NextFacets ==
  \/ FacetCall
  \/ \E i \in CallIds : ReadDone(i)
  \/ \E i \in CallIds : GetDone(i)

SpecFacets == InitFacets /\ [][NextFacets]_vars

(***************************************************************************)
(* Properties.                                                             *)
(***************************************************************************)
\* the calls in view: those awaiting and the one that has just returned
Observed == {calls[i] : i \in Pending} \cup {last.call}

Returned == last.call.pc = "done"

\* C1: a call made on the async client after a query-less getContent() has
\* succeeded (the internal sync client is set when the call starts) issues
\* no network request, whatever the accessor.
C1_NoRequestAfterUpgrade ==
  \A c \in Observed : c.upgraded => c.gets = 0 /\ c.posts = 0

\* C1 witness: getImage, a per-facet accessor, has returned a value on the
\* upgraded client.
C1_Witness ==
  /\ Returned /\ last.call.upgraded /\ last.call.kind = "getImage"
  /\ last.res.ok /\ last.call.gets = 0

\* C2 as claimed: the accessors of the sync client do no I/O, and a
\* construction from an empty cache plus its accessor calls make exactly one
\* network call in total.
C2_OneNetworkCallInTotal ==
  /\ last.call.local =>
       /\ last.call.gets = 0 /\ last.call.posts = 0
       /\ last.call.reads = 0 /\ last.call.writes = 0
  /\ client.set /\ client.fromEmpty => client.gets + client.posts = 1

\* C2 as amended: the accessors of the sync client do no I/O; a construction
\* from an empty cache plus its accessor calls make exactly one content GET,
\* and one resolve POST exactly when resolveEnv is on and the memo has no tag.
C2_OneGetInTotal ==
  /\ last.call.local =>
       /\ last.call.gets = 0 /\ last.call.posts = 0
       /\ last.call.reads = 0 /\ last.call.writes = 0
  /\ client.set /\ client.fromEmpty =>
       /\ client.gets = 1
       /\ client.posts = IF client.mustResolve THEN 1 ELSE 0

\* C2 witness: getContent(query) has returned on a client that was
\* constructed from an empty cache with a resolve request.
C2_Witness ==
  /\ Returned /\ last.call.local /\ last.call.kind = "getContent"
  /\ last.call.arg.q # NoSearch /\ last.res.ok
  /\ client.set /\ client.fromEmpty /\ client.posts = 1

\* C3: once the internal sync client is set it stays set, and a call that
\* starts when it is set returns at once what the sync accessor yields over
\* the unified document.
C3_AnsweredFromDocument ==
  /\ \A i \in Pending : ~calls[i].upgraded
  /\ last.call.upgraded =>
       /\ last.call.local
       /\ last.res = SyncAccessor(syncClient.data, last.call.kind, last.call.arg)

C3_UpgradeIsOneWay ==
  /\ [][syncClient.set => syncClient'.set]_vars
  /\ []C3_AnsweredFromDocument

\* C3 witness: getPages has returned on the upgraded client while the cache
\* still holds, for the selector 'pages', an older facet with other content.
C3_Witness ==
  /\ Returned /\ last.call.upgraded /\ last.call.kind = "getPages"
  /\ PagesUrl \in DOMAIN store
  /\ store[PagesUrl] = JSONstringify(CacheData(Arr(Pages(0)), 0))
  /\ last.res = filterPagesByPath(Arr(Pages(1)), PathB)
  /\ last.res # filterPagesByPath(Arr(Pages(0)), PathB)

\* what an accessor call c of the async client makes of the fetched value v
Derived(c, v) ==
  IF c.kind = "getContent" /\ c.search = NoSearch
  THEN SyncAccessor(v, c.kind, c.arg)
  ELSE AsyncAccessor(v, c.kind, c.arg)

HasTimestamp(text) ==
  IsJSONText(text) /\ text.v.j = "obj" /\ "_ts" \in DOMAIN text.v.o

EntryTs(text) == text.v.o._ts.n

EntryData(text) ==
  IF "data" \in DOMAIN text.v.o THEN text.v.o.data ELSE Undefined

\* the call c found an entry that cacheMinutes makes expired
FoundExpired(c) ==
  /\ c.cache /\ c.cacheMinutes # 0 /\ HasTimestamp(c.cached)
  /\ c.checkedAt - EntryTs(c.cached) >= c.cacheMinutes * MsPerMinute

\* a cache text that is no JSON, or JSON of another shape than an envelope
\* {data, _ts} or a bare value
Malformed(text) ==
  \/ text = GarbageText
  \/ IsJSONText(text) /\ text.v.j = "null"
  \/ HasTimestamp(text) /\ "data" \notin DOMAIN text.v.o

\* the outcome of the content GET of c, as the caller of c sees it
OutcomeOfGet(c) ==
  IF c.resp.kind = "ok" THEN Ok(c.resp.body) ELSE Err(ErrorOf(c.resp))

C6_MalformedIsMiss ==
  LET c == last.call
  IN (Returned /\ c.cache /\ Malformed(c.cached)) =>
       c.gets = 1 /\ last.res = OutcomeOfGet(c)

\* C7: when getItem throws or rejects, the call issues one GET and its
\* outcome is that of the GET.
C7_ReadFailureIsMiss ==
  LET c == last.call
  IN (Returned /\ c.cache /\ adapter.getFails) =>
       c.gets = 1 /\ c.reads = 1 /\ last.res = OutcomeOfGet(c)

\* C7 witness: a call has returned the fetched content although getItem
\* rejected.
C7_Witness ==
  /\ Returned /\ last.call.cache /\ adapter.getFails /\ adapter.async
  /\ last.call.cached = Rejected
  /\ last.res.ok /\ last.res.value = last.call.resp.body

\* C8: when setItem fails after a successful GET, the call returns the
\* fetched content and the store is as it was.
C8_WriteFailureIgnored ==
  LET c == last.call
  IN (Returned /\ c.cache /\ adapter.setFails /\ c.resp.kind = "ok") =>
       /\ last.res = Ok(c.resp.body)
       /\ c.writes = 1
       /\ getItem(store, c.url) = IF adapter.getFails THEN NoItem ELSE c.cached

\* C8 witness: a call has returned the fetched content after a failed write
\* over an old entry.
C8_Witness ==
  /\ Returned /\ last.call.cache /\ adapter.setFails /\ ~adapter.getFails
  /\ last.call.resp.kind = "ok" /\ last.res.ok /\ last.call.writes = 1
  /\ last.call.cached = GarbageText

\* the message of the error for an HTTP error response
MessageOf(resp) ==
  IF resp.body.j = "obj" /\ "message" \in DOMAIN resp.body.o
     /\ resp.body.o.message.s # ""
  THEN resp.body.o.message.s
  ELSE resp.statusText

\* C9 as claimed: a call whose GET is answered with an error status fails
\* with the status and the message, in every cache state (here: in every
\* state whose cache text is well formed).
C9_HttpErrorAlwaysRejects ==
  LET c == last.call
  IN (Returned /\ c.resp.kind = "http" /\ ~Malformed(c.cached)) =>
       last.res = Err(RequestFailed(c.resp.status, MessageOf(c.resp)))

\* C9 as amended: such a call fails with the status and the message, unless
\* it found an expired entry; then it returns the entry's stale data.
C9_HttpErrorRejectsUnlessStale ==
  LET c == last.call
  IN (Returned /\ c.resp.kind = "http") =>
       last.res = IF FoundExpired(c) THEN Ok(EntryData(c.cached))
                  ELSE Err(RequestFailed(c.resp.status, MessageOf(c.resp)))

\* C9 witness: a call over a cached entry that cannot be parsed has failed
\* with the server's message.
C9_Witness ==
  /\ Returned /\ last.call.resp.kind = "http"
  /\ last.call.cached = GarbageText
  /\ ~last.res.ok /\ last.res.value.status = 500
  /\ last.res.value.message = "boom"

\* C10: a call issues at most one content GET and at most one resolve POST.
C10_NoRetry ==
  \A c \in Observed : c.gets <= 1 /\ c.posts <= 1

\* C10 witness: a call has failed after one resolve POST and one GET.
C10_Witness ==
  /\ Returned /\ ~last.res.ok /\ last.call.gets = 1 /\ last.call.posts = 1
  /\ last.call.resp.kind = "http"

\* the memo key of a call: `${siteToken}:${env}`
KeyOf(c) == <<c.siteToken, c.env>>

\* the calls in view that are past the resolution of their env
Resolved == {c \in Observed : c.pc \in {"reading", "getting", "done"}}

C11_PostAndTarget ==
  /\ \A c \in Observed : c.pc = "resolving" => c.posts = 1 /\ c.gets = 0
  /\ \A c \in Resolved :
       /\ ~c.resolveEnv => c.posts = 0 /\ c.url.env = Alias
       /\ (c.resolveEnv /\ c.tagAt = NoTag) =>
            c.posts = 1 /\ c.url.env = fetchEnvTag(c.post, c.env)
       /\ (c.resolveEnv /\ c.tagAt # NoTag) =>
            c.posts = 0 /\ c.url.env = c.tagAt

\* C11: with resolution enabled and no memo entry a fetch issues one resolve
\* POST, before any GET, and targets the tag the POST returned; with
\* resolution disabled it issues no POST and targets the alias; once the memo
\* holds a tag for the pair, a fetch issues no POST and targets that tag, and
\* the memo's tag for the pair stays the same until clearEnvTagCache.
C11_ResolvedOnceUntilCleared ==
  /\ []C11_PostAndTarget
  /\ [][\A k \in DOMAIN envTagCache :
          k \in DOMAIN envTagCache' => envTagCache'[k] = envTagCache[k]]_vars

\* C11 witness: a fetch made after the site was published again has issued
\* no POST and its GET went to the tag resolved by an earlier fetch.
C11_Witness ==
  LET c == last.call
  IN /\ Returned /\ c.resolveEnv /\ c.tagAt.kind = "tag"
     /\ c.tagAt.id < serverVer
     /\ c.posts = 0 /\ c.gets = 1 /\ c.url.env = c.tagAt

\* the resolve request failed: it threw, was answered with an error status,
\* or with a body that holds no tag
PostFailed(resp) ==
  \/ resp.kind \in {"http", "throw"}
  \/ resp.kind = "ok" /\ Member(resp.body, "tag") = Undefined

\* the cache gave the call nothing to use: none passed, the read failed, no
\* item, or an item that is no JSON value
CacheMiss(c) ==
  \/ ~c.cache
  \/ c.cached \in {NoItem, Rejected, EmptyText, GarbageText,
                   JSONstringify(JNull)}

\* C12 as claimed: after a failed resolve request the fetch issues its content
\* GET against the alias URL and the outcome is that of the GET (whatever
\* well-formed text the cache holds).
C12_FailedResolveThenGet ==
  LET c == last.call
  IN (Returned /\ c.posts = 1 /\ PostFailed(c.post) /\ ~Malformed(c.cached)) =>
       /\ c.url = getUrl(c.siteToken, Alias, c.search, c.lang)
       /\ c.gets = 1
       /\ last.res = OutcomeOfGet(c)

\* C12 as amended: after a failed resolve request the fetch works against the
\* alias URL; it fails only when its GET fails; when the cache gives nothing
\* it issues one GET and the outcome is that of the GET; when it issues no
\* GET the answer is the cache entry under the alias URL.
C12_FailedResolveFallsBackToAlias ==
  LET c == last.call
  IN (Returned /\ c.posts = 1 /\ PostFailed(c.post)) =>
       /\ c.url = getUrl(c.siteToken, Alias, c.search, c.lang)
       /\ c.gets <= 1
       /\ ~c.ok => c.gets = 1 /\ last.res = OutcomeOfGet(c)
       /\ CacheMiss(c) => c.gets = 1 /\ last.res = OutcomeOfGet(c)
       /\ c.gets = 0 =>
            /\ c.cached = getItem(store, c.url)
            /\ last.res = Ok(IF HasTimestamp(c.cached)
                              THEN EntryData(c.cached)
                              ELSE JSONparse(c.cached))

\* C12 witness: the resolve request threw and the fetch returned the document
\* its GET of the alias URL was answered with.
C12_Witness ==
  LET c == last.call
  IN /\ Returned /\ c.posts = 1 /\ c.post.kind = "throw"
     /\ c.url.env = Alias /\ c.gets = 1 /\ c.resp.kind = "ok"
     /\ last.res = Ok(c.resp.body)

\* C13: the env-tag memo holds only tags that a resolve request returned, so
\* a fetch with resolution enabled that issues no resolve request has found
\* such a tag in the memo.
C13_MemoOnlySuccessfulResolutions ==
  /\ \A k \in DOMAIN envTagCache : envTagCache[k].kind = "tag"
  /\ \A c \in Resolved :
       (c.resolveEnv /\ c.posts = 0) => c.tagAt.kind = "tag"

\* C14: on an async client whose options enable env resolution, an accessor
\* call that issues a GET while the memo holds no tag has issued the resolve
\* request, and every such call targets the resolved tag.
C14_AsyncClientResolves ==
  LET c == last.call
  IN (Returned /\ opts.resolveEnv /\ ~c.local /\ c.gets = 1) =>
       /\ c.tagAt = NoTag => c.posts = 1
       /\ c.url.env = fetchEnvTag(c.post, c.env)
       /\ KeyOf(c) \in DOMAIN envTagCache

\* C15: on an async client created with cacheMinutes = m, a call that found
\* an entry aged at least m minutes has issued a GET.
C15_AsyncClientExpires ==
  LET c == last.call
  IN (Returned /\ opts.cacheMinutes # 0 /\ HasTimestamp(c.cached)
        /\ c.checkedAt >= EntryTs(c.cached) + opts.cacheMinutes * MsPerMinute)
       => c.gets = 1

\* C16 as claimed: what a client with a MemoryCache of its own requests at
\* construction does not depend on the clients made before it: it issues its
\* GET, and with resolution enabled its resolve POST (no resolution having
\* failed before).
C16_InstancesShareNothing ==
  LET c == last.call
  IN (Returned /\ c.kind = "createClient" /\ c.own /\ c.tagAt # Alias) =>
       /\ c.gets = 1
       /\ c.posts = IF c.resolveEnv THEN 1 ELSE 0

C16_OwnCacheAlwaysFetches ==
  LET c == last.call
  IN (Returned /\ c.kind = "createClient") =>
       /\ c.own => c.gets = 1 /\ c.cached = NoItem
       /\ c.resolveEnv => (c.posts = 0 <=> c.tagAt # NoTag)
       /\ (c.resolveEnv /\ c.tagAt # NoTag) => c.url.env = c.tagAt

\* C16 as amended: a client that made its own MemoryCache finds it empty and
\* issues its GET whatever other clients have cached, and its fetch leaves
\* the caller's adapter alone; the env-tag memo is shared by the clients of
\* the process: a client issues its resolve POST exactly when no client
\* before it has left a tag for the pair in the memo, and else targets that
\* tag.
C16_OwnCacheSharedMemo ==
  /\ []C16_OwnCacheAlwaysFetches
  /\ [][(\E i \in CallIds : calls[i].pc # "idle" /\ calls[i].own)
          => store' = store]_vars

\* C16 witness: a client with a MemoryCache of its own has issued its GET
\* although the caller's adapter holds an entry for the same URL, and has
\* issued no resolve POST because a client before it had resolved the tag.
C16_Witness ==
  LET c == last.call
  IN /\ Returned /\ c.kind = "createClient" /\ c.own /\ c.ok
     /\ c.resolveEnv /\ c.tagAt.kind = "tag" /\ c.posts = 0 /\ c.gets = 1
     /\ c.url \in DOMAIN store

\* a cache text that holds content: an envelope {data, _ts} or a bare value
ValidEntry(text) == IsJSONText(text) /\ ~Malformed(text)

\* the content of a valid entry
ContentOf(text) ==
  IF HasTimestamp(text) THEN EntryData(text) ELSE JSONparse(text)

\* C17 as claimed: without cacheMinutes a fetch that finds a valid entry
\* under its URL returns the entry's content, issues no network request and
\* writes nothing to the cache.
C17_ValidEntryNoNetwork ==
  LET c == last.call
  IN (Returned /\ c.cache /\ c.cacheMinutes = 0 /\ ValidEntry(c.cached)) =>
       /\ last.res = Ok(ContentOf(c.cached))
       /\ c.gets = 0 /\ c.posts = 0 /\ c.writes = 0
       /\ getItem(store, c.url) = c.cached

\* C17 as amended: without cacheMinutes a fetch that finds a valid entry
\* under its URL returns the entry's content, issues no content GET and
\* writes nothing to the cache; it has issued one resolve POST exactly when
\* resolution is enabled and the memo held no tag for the pair.
C17_ValidEntryNoGet ==
  LET c == last.call
  IN (Returned /\ c.cache /\ c.cacheMinutes = 0 /\ ValidEntry(c.cached)) =>
       /\ last.res = Ok(ContentOf(c.cached))
       /\ c.gets = 0 /\ c.writes = 0
       /\ c.posts = IF c.resolveEnv /\ c.tagAt = NoTag THEN 1 ELSE 0
       /\ getItem(store, c.url) = c.cached

\* C17 witness: a fetch has returned the document of an old entry without a
\* GET although the server serves another version by now.
C17_Witness ==
  LET c == last.call
  IN /\ Returned /\ c.cache /\ c.cacheMinutes = 0 /\ ValidEntry(c.cached)
     /\ c.search = NoSearch
     /\ last.res = Ok(ContentOf(c.cached))
     /\ ContentOf(c.cached) # ServerDoc(c.url.env, serverVer)
     /\ c.gets = 0 /\ c.writes = 0

\* the call c has fetched successfully and its setItem worked
Wrote(c) ==
  c.pc = "done" /\ c.gets = 1 /\ c.resp.kind = "ok" /\ c.cache
    /\ ~adapter.setFails

\* C18 as claimed: the text written after a successful fetch is the envelope
\* {data, _ts} exactly when cacheMinutes is set, and else the bare JSON of
\* the fetched value.
C18_EnvelopeOnlyWithWindow ==
  LET c == last.call
  IN Wrote(c) =>
       getItem(store, c.url) =
         IF c.cacheMinutes # 0
         THEN JSONstringify(CacheData(c.resp.body, now))
         ELSE JSONstringify(c.resp.body)

\* C18 as amended: the text written after a successful fetch is the envelope
\* {data, _ts} of the fetched value and the time of the write, whether or
\* not cacheMinutes is set.
C18_AlwaysEnvelope ==
  LET c == last.call
  IN Wrote(c) =>
       getItem(store, c.url) = JSONstringify(CacheData(c.resp.body, now))

\* C18 witness: a fetch without cacheMinutes has written an envelope.
C18_Witness ==
  LET c == last.call
  IN /\ Wrote(c) /\ c.cacheMinutes = 0
     /\ HasTimestamp(getItem(store, c.url))
     /\ EntryData(getItem(store, c.url)) = c.resp.body

C20_ReadyClientHoldsDocument ==
  LET c == last.call
  IN /\ (Returned /\ c.kind = "createClient" /\ c.ok) =>
          client.set /\ client.data = c.value
     /\ client.set => client.data.j = "obj"
     /\ (Returned /\ c.local /\ ~c.ok) => c.value # TypeError

(***************************************************************************)
(* Overlapping calls.                                                      *)
(***************************************************************************)
\* a call of getContent() without a query
QueryLess(c) == c.kind = "getContent" /\ c.arg.q = NoSearch

\* the server has not failed the call c: its GET, if it made one, was
\* answered with the document
Succeeding(c) == c.resp.kind \in {"ok", "none"}

\* C21: query-less getContent() calls that overlap on a client that is not
\* upgraded, with a succeeding server: each issues at most one GET of the
\* full document and no other request, each resolves to the full document,
\* the client is upgraded as soon as one has resolved, and a call that
\* starts on the upgraded client issues no network request.
C21_OverlappingGetContent ==
  /\ \A c \in Observed : QueryLess(c) => c.gets <= 1 /\ c.posts = 0
  /\ (Returned /\ QueryLess(last.call) /\ ~last.call.upgraded
        /\ Succeeding(last.call)) =>
       /\ \E v \in 0..MaxVer : last.res = Ok(Doc(v))
       /\ syncClient.set
       /\ Ok(syncClient.data) = last.res
  /\ \A c \in Observed : c.upgraded => c.gets = 0 /\ c.posts = 0

\* C21 witness: the second of two overlapping getContent() calls has
\* resolved to the document with a GET of its own while the first still
\* awaits its GET.
C21_Witness ==
  /\ Returned /\ QueryLess(last.call) /\ ~last.call.upgraded
  /\ last.call.gets = 1 /\ last.res = Ok(Doc(1))
  /\ \E i \in Pending : QueryLess(calls[i]) /\ calls[i].pc = "getting"

\* the fetches in view that found the memo empty when they started and are
\* past their resolve request
ResolvedFromEmpty ==
  {c \in Resolved : c.kind = "fetch" /\ c.resolveEnv /\ c.tagAt = NoTag}

\* C22: fetches with resolveEnv for the same credential and alias that
\* overlap on an empty memo each issue at most one resolve request, target
\* the same tag with their content GET, and leave that tag in the memo.
C22_OverlappingResolveAgree ==
  /\ \A c \in Observed : c.posts <= 1
  /\ \A c, d \in ResolvedFromEmpty :
       /\ c.url.env = d.url.env
       /\ envTagCache[<<c.siteToken, c.env>>] = c.url.env

(***************************************************************************)
(* Remote and local evaluation.                                            *)
(***************************************************************************)
\* the URL under which the expression of the getContent call c is fetched
ExpressionUrl(c) == getUrl(c.siteToken, c.env, c.arg.q, c.lang)

\* C23: while the server document is fixed (the adapter started empty and
\* the site has not been published again, so the document is Doc(1)), a
\* getContent(E) that succeeds returns evaluate(Doc(1), E), served remotely
\* before the upgrade and evaluated locally after it; the local value is
\* the value the server gave for search=E whenever it gave one.
C23_RemoteEqualsLocal ==
  LET c == last.call
  IN (Returned /\ c.kind = "getContent" /\ c.arg.q # NoSearch /\ last.res.ok
        /\ serverVer = 1 /\ adapter.fresh) =>
       /\ last.res = Ok(applyJmes(Doc(1), c.arg.q))
       /\ c.upgraded <=> c.local
       /\ ~c.upgraded => c.gets + c.reads > 0
       /\ (c.upgraded /\ ExpressionUrl(c) \in DOMAIN served) =>
            last.res = Ok(served[ExpressionUrl(c)])

\* C23 witness: getContent('images.logo') has been evaluated locally on the
\* upgraded client after the same expression was served remotely.
C23_Witness ==
  LET c == last.call
  IN /\ Returned /\ c.kind = "getContent" /\ c.arg.q = <<"images", "logo">>
     /\ c.upgraded /\ c.local /\ serverVer = 1 /\ adapter.fresh
     /\ ExpressionUrl(c) \in DOMAIN served
     /\ last.res = Ok(served[ExpressionUrl(c)])
     /\ last.res = Ok(Obj([url |-> 1]))

(***************************************************************************)
(* The page accessors.                                                     *)
(***************************************************************************)
\* the `pages` array the completed accessor call c worked on: of the
\* document of the sync client it was delegated to, or the one it fetched
PagesIn(c) ==
  IF c.local
  THEN Member(IF c.upgraded THEN syncClient.data ELSE client.data, "pages").a
  ELSE c.value.a

\* the call c has not failed in its fetch
Fetched(c) == c.local \/ c.ok

\* the subsequence of list of the pages whose _path starts with P
Matching(list, P) ==
  LET starts(page) == startsWith(PathOf(page), P)
  IN SelectSeq(list, starts)

\* C24 as claimed: getPages(P) returns, for every P, the subsequence of
\* `pages` whose _path starts with P, in the original order, on the sync
\* client and on the async client before and after the upgrade.
C24_PagesByAnyPrefix ==
  LET c == last.call
  IN (Returned /\ c.kind = "getPages" /\ Fetched(c)) =>
       last.res = Ok(Arr(Matching(PagesIn(c), c.arg.path)))

\* C24 as amended: getPages(P) returns, for every non-empty P, the
\* subsequence of `pages` whose _path starts with P, in the original order,
\* on the sync client and on the async client before and after the upgrade;
\* with an empty P the sync client and the upgraded async client fail with
\* 'path is required for getPages'.
C24_PagesByPrefix ==
  LET c == last.call
  IN (Returned /\ c.kind = "getPages" /\ Fetched(c)) =>
       /\ c.arg.path # <<>> =>
            last.res = Ok(Arr(Matching(PagesIn(c), c.arg.path)))
       /\ (c.arg.path = <<>> /\ c.local) =>
            last.res = Err(Required("path is required for getPages"))

\* C24 witness: getPages('/b') on the upgraded async client has returned
\* the pages '/b', '/bx' and '/by', in that order, and not '/a', which lies
\* between them.
C24_Witness ==
  LET c == last.call
  IN /\ Returned /\ c.kind = "getPages" /\ c.upgraded /\ c.arg.path = PathB
     /\ last.res = Ok(Arr(<<Pages(1)[2], Pages(1)[3], Pages(1)[5]>>))

\* the _slug values of the pages of list that declare a string _slug
SlugProjection(list) ==
  LET declares(page) == "_slug" \in DOMAIN page /\ page._slug.j = "str"
      sel == SelectSeq(list, declares)
  IN [i \in 1..Len(sel) |-> sel[i]._slug.s]

\* C25 as claimed: getSlugs(P) returns, for every P, the _slug values of the
\* pages whose _path starts with P and that declare a string _slug, in the
\* original order: the slug projection of getPages(P).
C25_SlugsByAnyPrefix ==
  LET c == last.call
  IN (Returned /\ c.kind = "getSlugs" /\ Fetched(c)) =>
       last.res = Ok(Arr(SlugProjection(Matching(PagesIn(c), c.arg.path))))

\* C25 as amended: the same for every non-empty P; with an empty P the sync
\* client and the upgraded async client fail with 'path is required for
\* getSlugs'.
C25_SlugsByPrefix ==
  LET c == last.call
  IN (Returned /\ c.kind = "getSlugs" /\ Fetched(c)) =>
       /\ c.arg.path # <<>> =>
            last.res = Ok(Arr(SlugProjection(Matching(PagesIn(c), c.arg.path))))
       /\ (c.arg.path = <<>> /\ c.local) =>
            last.res = Err(Required("path is required for getSlugs"))

\* C25 witness: getSlugs('/b') on a sync client has returned the one slug
\* 'b' although three pages lie under '/b': '/bx' declares no _slug and the
\* _slug of '/by' is a number.
C25_Witness ==
  LET c == last.call
  IN /\ Returned /\ c.kind = "getSlugs" /\ c.local /\ ~c.upgraded
     /\ c.arg.path = PathB
     /\ last.res = Ok(Arr(<<"b">>))
     /\ Len(Matching(PagesIn(c), PathB)) = 3

\* the pages of list whose _path is a string equal to path
WithPath(list, path) ==
  LET equal(page) == "_path" \in DOMAIN page /\ page._path = path
  IN SelectSeq(list, equal)

\* what the claim lets getPage(path) return over list
PageOrNull(list, path) ==
  IF WithPath(list, path) = <<>> THEN JNull ELSE Head(WithPath(list, path))

C27_EmptyPathRejected ==
  /\ \A c \in Observed :
       (c.kind = "getPage" /\ c.arg.path = <<>>) => c.gets = 0 /\ c.posts = 0
  /\ (Returned /\ last.call.kind = "getPage" /\ last.call.arg.path = <<>>) =>
       last.res = Err(Required("path is required for getPage"))

(***************************************************************************)
(* Credentials and the fetcher of createFetchSiteContent.                  *)
(***************************************************************************)
\* C28: a fetch with an empty credential, by fetchSiteContent or by the
\* fetcher of createFetchSiteContent, fails with 'siteToken is required'
\* at once: it never awaits, and it has made no network request and no
\* cache-adapter call.
C28_EmptyCredentialFailsFast ==
  \A c \in Observed :
    (c.kind \in {"fetch", "fetcher"} /\ c.siteToken = EmptyToken) =>
      /\ c.pc = "done" /\ ~c.ok
      /\ c.value = Required("siteToken is required")
      /\ c.gets = 0 /\ c.posts = 0 /\ c.reads = 0 /\ c.writes = 0

\* the fetcher holds a document
Holding == Truthy(fetcher.cachedContent)

C29_AnsweredFromDocument ==
  LET c == last.call
  IN /\ (Returned /\ c.kind = "fetcher" /\ c.arg.q = NoSearch /\ c.ok) =>
          Holding /\ fetcher.cachedContent = c.value
     /\ \A i \in Pending : calls[i].kind = "fetcher" => ~calls[i].upgraded
     /\ (Returned /\ c.kind = "fetcher" /\ c.upgraded) =>
          /\ c.gets = 0 /\ c.posts = 0
          /\ last.res = Ok(applyJmes(fetcher.cachedContent, c.arg.q))

\* C29: when a call without a query has completed successfully the fetcher
\* holds the document that call fetched, and keeps holding a document from
\* then on; a call that starts while it holds one issues no network request
\* and returns the local evaluation of its query over the held document,
\* whether the fetcher was created with cache enabled or not.
C29_LocalAfterFullFetch ==
  /\ []C29_AnsweredFromDocument
  /\ [][Holding => Truthy(fetcher'.cachedContent)]_vars

\* C29 witness: on a fetcher created with cache disabled, a call with the
\* query 'pages' made after a query-less call has returned the pages of the
\* held document, with that one request in total.
C29_Witness ==
  LET c == last.call
  IN /\ Returned /\ c.kind = "fetcher" /\ c.upgraded /\ ~fetcher.cache
     /\ ~fetcher.mock /\ c.arg.q = <<"pages">>
     /\ fetcher.requests = 1
     /\ last.res = Ok(Arr(Pages(1)))

\* the fetcher was created with cache enabled: cache: true, or mock: true
\* with a 'dev-' credential
CacheEnabled == fetcher.cache \/ (fetcher.mock /\ isDevToken(fetcher.siteToken))

\* C30: a fetcher created with cache enabled issues at most one network
\* request over any sequence of successful calls that do not overlap,
\* whatever their queries.
C30_OneRequestWithCache ==
  (fetcher.made /\ CacheEnabled /\ Pending = {} /\ ~overlapped
     /\ ~fetcher.failed) =>
    fetcher.requests <= 1

(***************************************************************************)
(* C31: the URL of a content request in the default routing mode is        *)
(* https://{first part of the credential}.sleekcms.com/{second part}/      *)
(* {environment or tag}, with a search parameter exactly when a query was  *)
(* requested and a lang parameter exactly when a language was configured.  *)
(***************************************************************************)
C31_UrlForm ==
  LET c == last.call
      u == last.res.value
  IN (c.kind = "getUrl" /\ c.arg = "production") =>
       /\ last.res.ok
       /\ u.base.prefix = Part(c.siteToken, 1)
       /\ u.base.host = "sleekcms.com"
       /\ u.base.site = Part(c.siteToken, 2)
       /\ u.env = (IF c.env = Undefined THEN Alias ELSE c.env)
       /\ (u.search # NoSearch <=> c.search # NoSearch)
       /\ u.search = c.search
       /\ (u.lang # NoLang <=> c.lang # NoLang)
       /\ u.lang = c.lang

(***************************************************************************)
(* C32: once the async client is upgraded its document is never replaced,  *)
(* so every call that starts after the upgrade is answered from the same   *)
(* document, also when query-less getContent() calls overlapped and the    *)
(* server's content changed between their fetches.                         *)
(***************************************************************************)
C32_DocumentNeverReplaced ==
  [][syncClient.set => /\ syncClient'.set
                       /\ syncClient'.data = syncClient.data]_vars

\* the accessor call that starts in this step, if one does
StartedCall == IF calls'[started'].pc # "idle" THEN calls'[started']
               ELSE last'.call

(***************************************************************************)
(* C33: a query-less getContent() whose full fetch fails rejects, and its  *)
(* failure leaves the async client and the cache as they were; a           *)
(* getContent(query) with a non-empty query leaves the client as it was;   *)
(* and every accessor called while the client is not upgraded goes to      *)
(* fetchSiteContent with its own selector, the query-less getContent()     *)
(* with none (the full fetch, attempted again).                            *)
(***************************************************************************)
C33_FailedUpgradeChangesNothing ==
  [][/\ (last'.call.pc = "done" /\ QueryLess(last'.call)
         /\ ~last'.call.local /\ ~last'.call.ok) =>
          /\ ~last'.res.ok
          /\ last'.call.writes = 0
          /\ syncClient' = syncClient
          /\ store' = store
     /\ (last'.call.pc = "done" /\ last'.call.kind = "getContent"
         /\ last'.call.arg.q # NoSearch) =>
          syncClient' = syncClient
     /\ (started' = started + 1 /\ ~syncClient.set) =>
          /\ ~StartedCall.local
          /\ StartedCall.search = SearchOf(StartedCall.kind, StartedCall.arg)
          /\ QueryLess(StartedCall) => StartedCall.search = NoSearch
    ]_vars

\* C33 witness: a query-less getContent() has just rejected after its GET
\* failed, over a cache that holds an entry, and the client is not upgraded.
C33_Witness ==
  /\ Returned /\ QueryLess(last.call) /\ ~last.res.ok
  /\ last.call.gets = 1 /\ last.call.resp.kind # "ok"
  /\ ~syncClient.set
  /\ DOMAIN store # {}

(***************************************************************************)
(* C34: a fetch that found an entry expired under cacheMinutes and whose   *)
(* refresh GET failed (network error or non-success status) returns the    *)
(* entry's stale data without raising, after that one GET and no other     *)
(* request, with no setItem and the entry as it was.                       *)
(***************************************************************************)
C34_StaleOnFailedRefresh ==
  LET c == last.call
  IN (Returned /\ c.kind = "fetch" /\ FoundExpired(c)
        /\ c.resp.kind \in {"http", "throw"}) =>
       /\ last.res = Ok(EntryData(c.cached))
       /\ c.gets = 1
       /\ c.writes = 0
       /\ getItem(store, c.url) = c.cached

\* C34 witness: a fetch over an entry older than cacheMinutes has returned
\* the entry's document after its GET failed on the network.
C34_Witness ==
  LET c == last.call
  IN /\ Returned /\ c.kind = "fetch" /\ FoundExpired(c)
     /\ c.resp.kind = "throw" /\ c.gets = 1
     /\ last.res = Ok(Doc(0))
     /\ store[c.url] = c.cached

\* the URL of the fetch c is built from c's own credential, selector and
\* language and from its environment or the tag that resolved
OwnUrl(c) ==
  /\ c.url.base.site = Part(c.siteToken, 2)
  /\ c.url.search = c.search
  /\ c.url.lang = c.lang
  /\ c.url.env \in {c.env} \cup {TagOf(v) : v \in 0..MaxVer}

(***************************************************************************)
(* C35: the cache changes only in a step in which a content GET succeeds,  *)
(* and then only in the entry under that request's URL; a fetch that ends  *)
(* with a failed GET or without a GET leaves the cache as it was; and      *)
(* what a fetch returns for its URL u is the body of its own successful   *)
(* GET of u or the content of the entry it read under the key u.           *)
(***************************************************************************)
C35_CacheKeyedByOwnUrl ==
  /\ [](LET c == last.call
        IN (Returned /\ c.kind = "fetch") =>
             /\ OwnUrl(c)
             /\ last.res.ok =>
                  \/ /\ c.gets = 1 /\ c.resp.kind = "ok"
                     /\ c.resp \in GetResponses(c.url, serverVer)
                     /\ last.res = Ok(c.resp.body)
                  \/ /\ c.resp.kind # "ok"
                     /\ c.cached = getItem(store, c.url)
                     /\ IsJSONText(c.cached)
                     /\ last.res = Ok(ContentOf(c.cached)))
  /\ [][store' # store =>
          /\ last'.call.pc = "done" /\ last'.call.resp.kind = "ok"
          /\ \E i \in Pending :
               /\ calls[i].pc = "getting" /\ calls[i].url = last'.call.url
               /\ DOMAIN store' = DOMAIN store \cup {calls[i].url}
               /\ \A k \in DOMAIN store : k # calls[i].url =>
                                              store'[k] = store[k]]_vars
  /\ [][(last'.call.pc = "done" /\ last'.call.kind = "fetch"
           /\ last'.call.resp.kind # "ok") => store' = store]_vars

\* C35 witness: over a cache that holds the full document under the
\* selector-less URL, a fetch with the selector 'pages' has returned the
\* pages of its own GET and written them under its own URL, the other entry
\* still in place.
C35_Witness ==
  LET c == last.call
  IN /\ Returned /\ c.kind = "fetch" /\ c.search = <<"pages">>
     /\ c.gets = 1 /\ last.res = Ok(Arr(Pages(1)))
     /\ c.url \in DOMAIN store /\ FullUrl \in DOMAIN store
     /\ store[c.url] = JSONstringify(CacheData(Arr(Pages(1)), now))
     /\ ContentOf(store[FullUrl]) = Doc(0)

(***************************************************************************)
(* C38: a fetch that is answered from an entry of the shared cache which   *)
(* an earlier fetch wrote uses the credential of that fetch, and its       *)
(* environment or tag, selector and language.                              *)
(***************************************************************************)
C38_EntryReadByWriterOnly ==
  LET c == last.call
  IN (Returned /\ c.kind = "fetch" /\ last.res.ok /\ c.resp.kind # "ok"
        /\ c.url \in DOMAIN writer) =>
       writer[c.url] = RequestOf(c)

(***************************************************************************)
(* C36: over the fixed server document Doc(1), an accessor call of the     *)
(* async client that the server has not failed has the outcome the sync    *)
(* client's accessor has over Doc(1), the same value or the same error,    *)
(* before the upgrade as after it.                                         *)
(***************************************************************************)
C36_AsyncAccessorEqualsSync ==
  LET c == last.call
  IN (Returned /\ c.kind # "getContent" /\ Succeeding(c)) =>
       last.res = SyncAccessor(Doc(1), c.kind, c.arg)

(***************************************************************************)
(* C37: while the server document is Doc(1), every successful call of the  *)
(* fetcher with the query Q returns the evaluation of Q over Doc(1),       *)
(* with cache enabled or disabled, a document held or not.                 *)
(***************************************************************************)
C37_FetcherEvaluatesQuery ==
  LET c == last.call
  IN (Returned /\ c.kind = "fetcher" /\ last.res.ok /\ serverVer = 1) =>
       last.res = Ok(applyJmes(Doc(1), c.arg.q))

====
